---- MODULE Spec2Model ----
(***************************************************************************)
(* The virtual-tree reconciliation engine (RenderingEngine) as a state     *)
(* machine.  A pass (_render/_renderChild) is split into its phases:       *)
(* capture, update/adopt, didUpdate notifications and the finally block.   *)
(* Every phase is computed by operators that thread a world record `s`     *)
(* through the recursion of the source, statement by statement.            *)
(*                                                                         *)
(* Only the default mode of _capture is modelled (DEBUG_RENDERING and      *)
(* VERBOSE_RENDERING_ENGINE are off).                                      *)
(***************************************************************************)
EXTENDS Integers, Sequences, FiniteSets, TLC

VARIABLES
    comps,      \* component instances: id -> record
    nodes,      \* concrete target-tree nodes: id -> record
    vels,       \* virtual descriptors of the running pass: Seq of records
    ctxs,       \* VirtualElement.Context objects of the running pass
    info,       \* RenderingState tags as stored on objects: <<stateId, kind, id>> -> record
    polluted,   \* RenderingState.polluted
    contexts,   \* RenderingState.contexts (stack of context ids)
    log,        \* calls made on the collaborators during the running/last pass
    err,        \* error thrown by the running/last pass ("none" if none)
    phase,      \* position inside the pass entry point
    rootVel,    \* the descriptor the pass was started with
    pass,       \* number of passes started so far (also RenderingState.id)
    entry,      \* "render" | "adopt" | "renderChild": entry point of the running/last pass
    engineState,\* RenderingEngine._state: 0 (null) or the id of a RenderingState
    pre,        \* comps/nodes when the pass started, and whether the pass before it returned normally
    menu,       \* the trees the root component of this run switches between
    jsx,        \* the last call of the descriptor-builder entry point createElement
    registry,   \* a DeprecatedRegistry: entries, names, and what its last call did
    services,   \* a Configurator's services and the getService calls in flight
    fragmenter  \* a Fragmenter run: its input, position and the calls it made

\* the value of a variable that belongs to a part of the program a run does not use
Unused == [status |-> "unused"]

vars == <<comps, nodes, vels, ctxs, info, polluted, contexts, log, err, phase,
          rootVel, pass, entry, engineState, pre, menu, jsx, registry, services, fragmenter>>

\* --------------------------------------------------------------------------
\* Bounds of the model
\* --------------------------------------------------------------------------
MaxPasses == 3
\* createElement: number of keys in the property bag
MaxKeys == 2

\* --------------------------------------------------------------------------
\* Small helpers
\* --------------------------------------------------------------------------
Nil == "nil"
NoErr == "none"
EmptyMap == [x \in {} |-> Nil]
NoProps == [attrs |-> EmptyMap, hprops |-> EmptyMap, listeners |-> <<>>]

Range(f) == {f[x] : x \in DOMAIN f}

\* f itself, as an explicitly enumerated function / sequence
Enumerated(f) == f @@ f
EnumeratedSeq(q) == SubSeq(q, 1, Len(q))

\* F applied to x: names an intermediate value (the value is computed once)
With(x, F(_)) == F(x)

\* smallest positive id not used in table f
Fresh(f) ==
    CHOOSE i \in 1..(Cardinality(DOMAIN f) + 1) :
        i \notin DOMAIN f /\ \A j \in 1..(i - 1) : j \in DOMAIN f

SeqRemove(seq, x) == SelectSeq(seq, LAMBDA y : y # x)

IndexOf(seq, x) == IF \E i \in 1..Len(seq) : seq[i] = x
                   THEN CHOOSE i \in 1..Len(seq) : seq[i] = x /\ \A j \in 1..(i - 1) : seq[j] # x
                   ELSE 0

InsertAt(seq, i, x) == SubSeq(seq, 1, i - 1) \o <<x>> \o SubSeq(seq, i, Len(seq))

\* JS Map kept as a sequence of <<key, value>> pairs in insertion order
MapHas(m, k) == \E i \in 1..Len(m) : m[i][1] = k
MapGet(m, k) == IF MapHas(m, k) THEN m[CHOOSE i \in 1..Len(m) : m[i][1] = k][2] ELSE 0
MapSet(m, k, v) == IF MapHas(m, k)
                   THEN EnumeratedSeq([i \in 1..Len(m) |-> IF m[i][1] = k THEN <<k, v>> ELSE m[i]])
                   ELSE Append(m, <<k, v>>)

\* a call on a collaborator: a, b, c are object ids (0 when unused), x a value
Ev(op, a, b, c, x) == [op |-> op, a |-> a, b |-> b, c |-> c, x |-> x]
Log(s, op, a, b, c, x) == [s EXCEPT !.log = Append(@, Ev(op, a, b, c, x))]
Throw(s, e) == IF s.err = NoErr THEN [s EXCEPT !.err = e] ELSE s
Ok(s) == s.err = NoErr

\* --------------------------------------------------------------------------
\* RenderingState: tags are stored on the tagged object under the state's id
\* --------------------------------------------------------------------------
V(id) == <<"vel", id>>
C(id) == <<"comp", id>>
InfoKey(s, obj) == <<s.sid, obj[1], obj[2]>>

StateSet(s, key, obj, val) ==
    IF ~Ok(s) THEN s
    ELSE IF InfoKey(s, obj) \notin DOMAIN s.info
         THEN [s EXCEPT !.info = (InfoKey(s, obj) :> (key :> val)) @@ @,
                        !.polluted = Append(@, obj)]
         ELSE [s EXCEPT !.info[InfoKey(s, obj)] = (key :> val) @@ @]

SetTag(s, key, obj) == StateSet(s, key, obj, TRUE)

HasKey(s, key, obj) ==
    /\ InfoKey(s, obj) \in DOMAIN s.info
    /\ key \in DOMAIN s.info[InfoKey(s, obj)]

StateGet(s, key, obj) == s.info[InfoKey(s, obj)][key]

\* state.is(key, obj): flags are only ever set to true
Is(s, key, obj) == HasKey(s, key, obj)

\* variant of dispose that forgets the tagged objects
DisposeContextsOnly(s) == [s EXCEPT !.contexts = <<>>]

StateDispose(s) ==
    [s EXCEPT !.info = Enumerated([k \in {j \in DOMAIN s.info :
                                  ~(j[1] = s.sid /\ <<j[2], j[3]>> \in Range(s.polluted))}
                            |-> s.info[k]]),
              !.contexts = <<>>]

PushContext(s, ctx) == [s EXCEPT !.contexts = Append(@, ctx)]
\* variant of popContext that leaves the stack as it is
KeepContext(s) == s

PopContext(s) == [s EXCEPT !.contexts = IF Len(@) = 0 THEN @ ELSE SubSeq(@, 1, Len(@) - 1)]
GetCurrentContext(s) == IF Len(s.contexts) = 0 THEN 0 ELSE s.contexts[Len(s.contexts)]

\* --------------------------------------------------------------------------
\* Element Factory and concrete nodes (external collaborator)
\* --------------------------------------------------------------------------
NewNode(kind, tag, text) ==
    [kind |-> kind, tag |-> tag, text |-> text, attrs |-> EmptyMap, props |-> EmptyMap,
     listeners |-> <<>>, children |-> <<>>, parent |-> 0, comp |-> 0, hasInnerHTML |-> FALSE]

DomDetach(ns, n) ==
    IF ns[n].parent = 0 THEN ns
    ELSE [ns EXCEPT ![ns[n].parent].children = SeqRemove(ns[ns[n].parent].children, n), ![n].parent = 0]

DomCreateElement(s, tag) ==
    Log([s EXCEPT !.nodes = (Fresh(s.nodes) :> NewNode("elem", tag, Nil)) @@ @],
        "createElement", Fresh(s.nodes), 0, 0, tag)

DomCreateTextNode(s, text) ==
    Log([s EXCEPT !.nodes = (Fresh(s.nodes) :> NewNode("text", Nil, text)) @@ @],
        "createTextNode", Fresh(s.nodes), 0, 0, text)

DomAppendChild(s, p, n) ==
    IF ~Ok(s) THEN s
    ELSE LET ns == DomDetach(s.nodes, n)
         IN Log([s EXCEPT !.nodes = [ns EXCEPT ![p].children = Append(@, n), ![n].parent = p]],
                "appendChild", p, n, 0, Nil)

DomInsertBefore(s, p, n, before) ==
    IF ~Ok(s) THEN s
    ELSE IF s.nodes[before].parent # p THEN Throw(s, "NotAChild")
    ELSE LET ns == DomDetach(s.nodes, n)
         IN Log([s EXCEPT !.nodes = [ns EXCEPT ![p].children = InsertAt(ns[p].children,
                                                                          IndexOf(ns[p].children, before), n),
                                                ![n].parent = p]],
                "insertBefore", p, n, before, Nil)

DomRemoveChild(s, p, n) ==
    IF ~Ok(s) THEN s
    ELSE IF s.nodes[n].parent # p THEN Throw(s, "NotAChild")
    ELSE Log([s EXCEPT !.nodes = DomDetach(s.nodes, n)], "removeChild", p, n, 0, Nil)

\* el.replaceChild(oldChild, newChild)
DomReplaceChild(s, p, old, new) ==
    IF ~Ok(s) THEN s
    ELSE IF s.nodes[old].parent # p THEN Throw(s, "NotAChild")
    ELSE IF old = new THEN s
    ELSE LET ns == DomDetach(s.nodes, new)
         IN Log([s EXCEPT !.nodes =
                    [ns EXCEPT ![p].children = EnumeratedSeq([i \in 1..Len(ns[p].children) |->
                                                    IF ns[p].children[i] = old THEN new
                                                    ELSE ns[p].children[i]]),
                               ![new].parent = p,
                               ![old].parent = 0]],
                "replaceChild", p, old, new, Nil)

\* child.remove()
DomRemove(s, n) ==
    IF ~Ok(s) THEN s
    ELSE Log([s EXCEPT !.nodes = DomDetach(s.nodes, n)], "removeChild", s.nodes[n].parent, n, 0, Nil)

RECURSIVE SubtreeNodes(_, _)
SubtreeNodes(ns, n) ==
    {n} \cup UNION {SubtreeNodes(ns, ns[n].children[i]) : i \in 1..Len(ns[n].children)}

\* --------------------------------------------------------------------------
\* Component instances (Component Factory, external collaborator)
\* --------------------------------------------------------------------------
NewComp(kind, cls, parent, props) ==
    [kind |-> kind, cls |-> cls, parent |-> parent, props |-> props, state |-> 0,
     el |-> 0, mounted |-> FALSE, ref |-> Nil, owner |-> 0, forwardedComp |-> 0,
     hasData |-> FALSE, refs |-> <<>>, foreignRefs |-> <<>>, internalRefs |-> <<>>,
     hasElementProps |-> FALSE, elementProps |-> NoProps, publicRefs |-> <<>>]

\* instances whose node lies in the subtree of c's node (c itself included)
CompsUnder(s, c) ==
    IF s.comps[c].el = 0 THEN {c}
    ELSE {c} \cup {d \in DOMAIN s.comps :
                     s.comps[d].el # 0 /\ s.comps[d].el \in SubtreeNodes(s.nodes, s.comps[c].el)}

ParentNodeOf(s, c) == IF s.comps[c].el = 0 THEN 0 ELSE s.nodes[s.comps[c].el].parent

IsMounted(s, c) == s.comps[c].mounted

TriggerDidMount(s, c) ==
    IF ~Ok(s) THEN s
    ELSE Log([s EXCEPT !.comps = Enumerated([d \in DOMAIN s.comps |->
                                     IF d \in CompsUnder(s, c)
                                     THEN [s.comps[d] EXCEPT !.mounted = TRUE]
                                     ELSE s.comps[d]])],
             "didMount", c, ParentNodeOf(s, c), 0, Nil)

TriggerDispose(s, c) ==
    IF ~Ok(s) THEN s
    ELSE Log([s EXCEPT !.comps = Enumerated([d \in DOMAIN s.comps |->
                                     IF d \in CompsUnder(s, c)
                                     THEN [s.comps[d] EXCEPT !.mounted = FALSE]
                                     ELSE s.comps[d]])],
             "dispose", c, ParentNodeOf(s, c), 0, Nil)

GetParent(s, c) == s.comps[c].parent

SetParent(s, c, p) == [s EXCEPT !.comps[c].parent = p]

\* a component is forwarding when its node belongs to another instance
IsForwardingComp(s, c) ==
    /\ s.comps[c].kind = "comp"
    /\ s.comps[c].el # 0
    /\ s.nodes[s.comps[c].el].comp # 0
    /\ s.nodes[s.comps[c].el].comp # c

IsForwardedComp(s, c) ==
    /\ s.comps[c].parent # 0
    /\ s.comps[c].parent \in DOMAIN s.comps
    /\ IsForwardingComp(s, s.comps[c].parent)

\* --------------------------------------------------------------------------
\* Virtual descriptors (VirtualElement) and what render routines declare
\* --------------------------------------------------------------------------
\* what a render routine writes down: $$(tag)..., $$(Class, props)..., text
El(tag, ref, attrs, listeners, kids) ==
    [type |-> "elem", tag |-> tag, cls |-> Nil, text |-> Nil, ref |-> ref, props |-> 0,
     attrs |-> attrs, hprops |-> EmptyMap, listeners |-> listeners, html |-> Nil, kids |-> kids]
\* $$(tag).attr(attrs).htmlProp(hprops).on(...)
ElP(tag, attrs, hprops, listeners) ==
    [El(tag, Nil, attrs, listeners, <<>>) EXCEPT !.hprops = hprops]
Co(cls, ref, props) ==
    [type |-> "comp", tag |-> Nil, cls |-> cls, text |-> Nil, ref |-> ref, props |-> props,
     attrs |-> EmptyMap, hprops |-> EmptyMap, listeners |-> <<>>, html |-> Nil, kids |-> <<>>]
Tx(text) ==
    [type |-> "text", tag |-> Nil, cls |-> Nil, text |-> text, ref |-> Nil, props |-> 0,
     attrs |-> EmptyMap, hprops |-> EmptyMap, listeners |-> <<>>, html |-> Nil, kids |-> <<>>]
NilResult ==
    [type |-> "nil", tag |-> Nil, cls |-> Nil, text |-> Nil, ref |-> Nil, props |-> 0,
     attrs |-> EmptyMap, hprops |-> EmptyMap, listeners |-> <<>>, html |-> Nil, kids |-> <<>>]

NewVel(t, ctx, owner, parent) ==
    [type |-> t.type, tag |-> t.tag, cls |-> t.cls, text |-> t.text, ref |-> t.ref,
     props |-> t.props, attrs |-> t.attrs, hprops |-> t.hprops, listeners |-> t.listeners,
     html |-> t.html, children |-> <<>>, parent |-> parent, comp |-> 0, ctx |-> ctx,
     owner |-> owner,
     hasElementProps |-> FALSE, elementProps |-> NoProps,
     isForwarding |-> FALSE, forwardedEl |-> 0, isForwarded |-> FALSE,
     hasEntries |-> FALSE, entries |-> <<>>, prelim |-> 0]

NewContext(owner) ==
    [owner |-> owner, components |-> <<>>, refs |-> <<>>, foreignRefs |-> <<>>,
     hasInternalRefs |-> FALSE, internalRefs |-> <<>>]

\* the descriptors one render call creates through $$, in document order
RECURSIVE Build(_, _, _, _)
RECURSIVE BuildKids(_, _, _, _, _)
Build(s, t, ctx, parent) ==
    LET v == Len(s.vels) + 1
        s1 == [s EXCEPT !.vels = Append(@, NewVel(t, ctx, s.ctxs[ctx].owner, parent)),
                        !.ctxs[ctx].components = IF t.type = "comp" THEN Append(@, v) ELSE @,
                        !.ctxs[ctx].refs = IF t.ref # Nil THEN MapSet(s.ctxs[ctx].refs, t.ref, v)
                                           ELSE s.ctxs[ctx].refs]
    IN BuildKids(s1, t.kids, 1, ctx, v)

BuildKids(s, kids, i, ctx, parent) ==
    IF i > Len(kids) THEN s
    ELSE LET kid == Len(s.vels) + 1
             s1 == Build(s, kids[i], ctx, parent)
         IN BuildKids([s1 EXCEPT !.vels[parent].children = Append(@, kid)], kids, i + 1, ctx, parent)

\* VirtualElement._copy / _clear / _merge on the element properties
VelCopy(vel) == [attrs |-> vel.attrs, hprops |-> vel.hprops, listeners |-> vel.listeners]
VelClear(vel) == [vel EXCEPT !.attrs = EmptyMap, !.hprops = EmptyMap, !.listeners = <<>>]
VelMerge(vel, other) ==
    [vel EXCEPT !.attrs = other.attrs @@ @,
                !.hprops = other.hprops @@ @,
                !.listeners = @ \o SelectSeq(other.listeners, LAMBDA l : l \notin Range(vel.listeners))]

\* --------------------------------------------------------------------------
\* Render routines of the model: the trees the root component can declare
\* --------------------------------------------------------------------------
Div(kids) == El("div", Nil, EmptyMap, <<>>, kids)
Span(kids) == El("span", Nil, EmptyMap, <<>>, kids)
FooA == Co("Foo", "a", 1)
FooB == Co("Foo", "b", 1)
FooC == Co("Foo", "c", 1)
BarX == Co("Bar", Nil, 1)

\* the state of the root component selects one of these trees
Templates == <<
    Div(<<FooA, FooB, FooC>>),
    Div(<<FooA, BarX, FooB, FooC>>),
    Div(<<BarX, FooC, FooA>>),
    Div(<<Tx("n1"), FooA>>),
    Div(<<El("b", Nil, EmptyMap, <<>>, <<>>), Tx("n2")>>),
    Div(<<FooA>>),
    Div(<<Span(<<FooA>>)>>),
    Div(<<Span(<<Co("Bar", "a", 1)>>)>>),
    Div(<<Span(<<FooA, Co("Foo", "x", 1)>>)>>),
    Div(<<Co("Lazy", "l", 1)>>),
    Div(<<Co("Lazy", "l", 2)>>),
    Div(<<Co("Sw", "s", 1)>>),
    Div(<<Co("Sw", "s", 2)>>),
    Div(<<Co("Fwd2", "f", 1)>>),
    Co("Fwd", Nil, 1),
    El("div", Nil, ("class" :> "x"), <<"click">>, <<Tx("n1")>>),
    El("div", Nil, ("id" :> "y"), <<>>, <<Tx("n2")>>),
    Div(<<Co("Bad", Nil, 1), FooA>>),
    Tx("n1"),
    Co("Foo", "r", 1),
    El("b", Nil, EmptyMap, <<>>, <<Tx("n1")>>),
    Div(<<Co("Counter", "c", 1)>>),
    Div(<<Co("Counter", "c", 2)>>),
    Div(<<Co("CounterAttr", "c", 1)>>),
    Div(<<Co("CounterAttr", "c", 2)>>),
    Div(<<Co("Still", "s", 1)>>),
    Div(<<Co("Still", "s", 2)>>),
    ElP("input", ("type" :> "text" @@ "class" :> "x"),
        ("value" :> "a" @@ "checked" :> "t" @@ "selected" :> "t"), <<"click">>),
    ElP("input", ("type" :> "text" @@ "id" :> "y"),
        ("value" :> "b" @@ "checked" :> "t"), <<"click", "input">>),
    Div(<<Span(<<Co("Foo", "x", 1)>>)>>),
    Div(<<BarX, Span(<<BarX>>), BarX>>),
    Div(<<Span(<<>>), Span(<<FooA>>)>>),
    Div(<<Span(<<>>)>>),
    Div(<<[El("p", Nil, EmptyMap, <<>>, <<>>) EXCEPT !.html = "n1"]>>),
    Div(<<>>)
>>

\* the families of trees one run of the root component switches between
Menus == {{1, 2, 3}, {4, 5, 6}, {6, 7, 9}, {6, 8}, {10, 11}, {12, 13}, {14, 15},
          {16, 17}, {1, 18, 19}, {22, 23}, {24, 25}, {26, 27}, {28, 29}, {7, 30}, {3, 31}, {7, 32, 33},
          {34, 35}}

\* the descriptors handed to the incremental entry point
ChildTemplates == {20, 21}

\* --------------------------------------------------------------------------
\* Component classes of the model: what render() declares, shouldRerender()
\* --------------------------------------------------------------------------
TextOf(n) == IF n = 1 THEN "n1" ELSE "n2"

RenderOf(cls, props, state) ==
    CASE cls = "Root" -> IF state \in 1..Len(Templates) THEN Templates[state] ELSE NilResult
      [] cls = "Foo"  -> El("span", Nil, EmptyMap, <<>>, <<Tx(TextOf(props))>>)
      [] cls = "Bar"  -> El("p", Nil, EmptyMap, <<>>, <<Tx(TextOf(props))>>)
      [] cls = "Lazy" -> El("i", Nil, EmptyMap, <<>>, <<Tx(TextOf(props))>>)
      [] cls = "Counter" -> El("span", Nil, EmptyMap, <<>>, <<Tx(TextOf(props))>>)
      [] cls = "CounterAttr" -> El("span", Nil, ("n" :> TextOf(props)), <<>>, <<>>)
      [] cls = "Still" -> El("i", Nil, EmptyMap, <<>>, <<Tx(TextOf(props))>>)
      [] cls = "Fwd"  -> Co("Foo", Nil, props)
      [] cls = "Fwd2" -> Co("Fwd", Nil, props)
      [] cls = "Sw"   -> IF props = 1 THEN Co("Foo", Nil, props) ELSE Co("Bar", Nil, props)
      [] OTHER        -> NilResult

ShouldRerender(cls, props, nextProps) ==
    IF cls = "Lazy" THEN props # nextProps
    ELSE IF cls = "Still" THEN FALSE
    ELSE TRUE

\* --------------------------------------------------------------------------
\* Capture phase
\* --------------------------------------------------------------------------
\* variant of _isOfSameType that lacks the component case
SameTypeWithoutComponents(s, c, v) ==
    \/ s.comps[c].kind = "elem" /\ s.vels[v].type = "elem"
    \/ s.comps[c].kind = "text" /\ s.vels[v].type = "text"

IsOfSameType(s, c, v) ==
    \/ s.comps[c].kind = "elem" /\ s.vels[v].type = "elem"
    \/ s.comps[c].kind = "comp" /\ s.vels[v].type = "comp" /\ s.comps[c].cls = s.vels[v].cls
    \/ s.comps[c].kind = "text" /\ s.vels[v].type = "text"

\* variant of _link that takes the node of the linked instance out of its parent
DoLinkDetaching(s, c, v) ==
    With(SetTag(SetTag(SetTag(SetTag([s EXCEPT !.vels[v].comp = c],
        "MAPPED", V(v)), "MAPPED", C(c)), "LINKED", V(v)), "LINKED", C(c)), LAMBDA s1 :
    IF s1.comps[c].el # 0 /\ s1.nodes[s1.comps[c].el].parent # 0
    THEN DomRemoveChild(s1, s1.nodes[s1.comps[c].el].parent, s1.comps[c].el)
    ELSE s1)

DoLink(s, c, v) ==
    SetTag(SetTag(SetTag(SetTag([s EXCEPT !.vels[v].comp = c],
        "MAPPED", V(v)), "MAPPED", C(c)), "LINKED", V(v)), "LINKED", C(c))

DoReject(s, c, v) ==
    LET s1 == SetTag([s EXCEPT !.vels[v].comp = 0], "MAPPED", V(v))
    IN IF c # 0 THEN SetTag(s1, "MAPPED", C(c)) ELSE s1

IsMapped(s, c, v) == Is(s, "MAPPED", V(v)) \/ Is(s, "MAPPED", C(c))

\* _isLinked: its result, and the tag it sets on the way
IsLinked(s, c, v) == s.vels[v].comp = c
IsLinkedFix(s, c, v) ==
    IF s.vels[v].comp = c /\ (~Is(s, "LINKED", V(v)) \/ ~Is(s, "LINKED", C(c)))
    THEN SetTag(s, "LINKED", V(v))
    ELSE s

\* variant of _linkComponent that links whatever instance the reference names
LinkAnyType(s, c, v) ==
    IF ~Ok(s) THEN s
    ELSE IF c = 0 THEN DoReject(s, c, v)
    ELSE IF IsMapped(s, c, v) THEN s
    ELSE DoLink(s, c, v)

\* variant of _linkComponent that rejects every candidate
RejectComponent(s, c, v) == IF ~Ok(s) THEN s ELSE DoReject(s, c, v)

LinkComponent(s, c, v) ==
    IF ~Ok(s) THEN s
    ELSE IF c = 0 THEN DoReject(s, c, v)
    ELSE IF IsMapped(s, c, v) THEN s
    ELSE IF IsLinked(s, c, v) THEN IsLinkedFix(s, c, v)
    ELSE IF IsOfSameType(s, c, v) THEN DoLink(s, c, v)
    ELSE DoReject(s, c, v)

RECURSIVE SkipElementParents(_, _)
SkipElementParents(s, c) ==
    IF c # 0 /\ s.comps[c].kind = "elem" THEN SkipElementParents(s, GetParent(s, c)) ELSE c

\* returns [ok |-> canLinkParent, s |-> the state afterwards]
RECURSIVE PropagateLinking(_, _, _, _)
PropagateLinking(s, c, v, stopIfMapped) ==
    IF ~Ok(s) \/ v = 0 \/ c = 0 THEN [ok |-> FALSE, s |-> s]
    ELSE IF stopIfMapped /\ IsMapped(s, c, v)
         THEN [ok |-> IsLinked(s, c, v), s |-> IsLinkedFix(s, c, v)]
    ELSE IF s.vels[v].type # "comp" /\ ~IsOfSameType(s, c, v)
         THEN [ok |-> FALSE, s |-> DoReject(s, c, v)]
    ELSE With(IF s.vels[v].type # "comp" THEN DoLink(s, c, v) ELSE s, LAMBDA s1 :
         With(IF s1.vels[v].parent # 0
              THEN PropagateLinking(s1, GetParent(s1, c), s1.vels[v].parent, TRUE)
              ELSE IF s1.vels[v].prelim # 0
              THEN PropagateLinking(s1, SkipElementParents(s1, GetParent(s1, c)),
                                    s1.vels[v].prelim, TRUE)
              ELSE [ok |-> FALSE, s |-> s1], LAMBDA r :
         IF s1.vels[v].type = "comp" /\ ~r.ok
         THEN [ok |-> FALSE,
               s |-> SetTag(SetTag(r.s, "RELOCATED", V(v)), "RELOCATED", C(c))]
         ELSE r))

\* _getVirtualComponentTrace: class name preceded by the enclosing tag names
RECURSIVE TraceUp(_, _, _, _)
TraceUp(s, p, root, frags) ==
    IF p = 0 \/ p = root THEN frags
    ELSE IF s.vels[p].type = "fake" THEN frags
    ELSE TraceUp(s, s.vels[p].parent, root, <<s.vels[p].tag>> \o frags)

\* variant of _getVirtualComponentTrace that leaves the enclosing tag names out
ClassNameAsTrace(s, vc, root) == <<s.vels[vc].cls>>

GetVirtualComponentTrace(s, vc, root) ==
    IF s.vels[vc].isForwarded THEN <<s.vels[vc].cls>>
    ELSE TraceUp(s, s.vels[vc].parent, root, <<s.vels[vc].cls>>)

\* _extractInternalRefs: key <<trace, 1>> is the bare trace, <<trace, k>> is trace@k
RECURSIVE InternalRefsLoop(_, _, _, _, _, _)
InternalRefsLoop(s, list, i, root, idCounts, refs) ==
    IF i > Len(list) THEN refs
    ELSE IF s.vels[list[i]].ref # Nil
         THEN InternalRefsLoop(s, list, i + 1, root, idCounts, refs)
    ELSE LET ref == GetVirtualComponentTrace(s, list[i], root)
         IN IF MapHas(idCounts, ref)
            THEN InternalRefsLoop(s, list, i + 1, root,
                                  MapSet(idCounts, ref, MapGet(idCounts, ref) + 1),
                                  MapSet(refs, <<ref, MapGet(idCounts, ref) + 1>>, list[i]))
            ELSE InternalRefsLoop(s, list, i + 1, root,
                                  MapSet(idCounts, ref, 1),
                                  MapSet(refs, <<ref, 1>>, list[i]))

ExtractInternalRefs(s, ctx, root) ==
    InternalRefsLoop(s, s.ctxs[ctx].components, 1, root, <<>>, <<>>)

AddEntries(newRefs, oldRefs) ==
    EnumeratedSeq([i \in 1..Len(newRefs) |->
                      [vc |-> newRefs[i][2], comp |-> MapGet(oldRefs, newRefs[i][1])]])

\* first part of _forEachComponent: vc.__components__ is computed once
ComponentEntries(s, c, v) ==
    IF s.vels[v].hasEntries THEN s
    ELSE With(IF s.ctxs[s.vels[v].ctx].hasInternalRefs THEN s
              ELSE [s EXCEPT !.ctxs[s.vels[v].ctx].internalRefs =
                                 ExtractInternalRefs(s, s.vels[v].ctx, v),
                             !.ctxs[s.vels[v].ctx].hasInternalRefs = TRUE], LAMBDA s1 :
         With(s1.ctxs[s1.vels[v].ctx], LAMBDA cx :
         [s1 EXCEPT !.comps[c].hasData = TRUE,
                    !.vels[v].hasEntries = TRUE,
                    !.vels[v].entries = AddEntries(cx.refs, s1.comps[c].refs)
                                        \o AddEntries(cx.foreignRefs, s1.comps[c].foreignRefs)
                                        \o AddEntries(cx.internalRefs, s1.comps[c].internalRefs)]))

RECURSIVE ApplyHook(_, _, _, _)
ApplyHook(s, entries, i, hook) ==
    IF ~Ok(s) \/ i > Len(entries) THEN s
    ELSE ApplyHook(IF hook = "link"
                   THEN LinkComponent(s, entries[i].comp, entries[i].vc)
                   ELSE PropagateLinking(s, entries[i].comp, entries[i].vc, FALSE).s,
                   entries, i + 1, hook)

ForEachComponent(s, c, v, hook) ==
    IF ~Ok(s) THEN s
    ELSE With(ComponentEntries(s, c, v), LAMBDA s1 :
         ApplyHook(s1, s1.vels[v].entries, 1, hook))

\* the kind of instance the component factory makes for a descriptor
KindOf(vel) == IF vel.type = "comp" THEN "comp" ELSE IF vel.type = "elem" THEN "elem" ELSE "text"

\* _create: the instance for a descriptor that has none; parents first
RECURSIVE Create(_, _)
Create(s, v) ==
    IF ~Ok(s) THEN s
    ELSE IF s.vels[v].parent = 0 THEN Throw(s, "TypeError")
    ELSE With(IF s.vels[s.vels[v].parent].comp = 0 THEN Create(s, s.vels[v].parent) ELSE s,
              LAMBDA s1 :
         IF ~Ok(s1) THEN s1
         ELSE With(Fresh(s1.comps), LAMBDA c :
              With(Log([s1 EXCEPT
                           !.comps = (c :> [NewComp(KindOf(s1.vels[v]), s1.vels[v].cls,
                                                    s1.vels[s1.vels[v].parent].comp,
                                                    s1.vels[v].props)
                                               EXCEPT !.ref = s1.vels[v].ref,
                                                      !.owner = IF s1.vels[v].owner = 0 THEN 0
                                                                ELSE s1.vels[s1.vels[v].owner].comp])
                                     @@ s1.comps,
                           !.vels[v].comp = c],
                       "create", c, s1.vels[s1.vels[v].parent].comp, v, KindOf(s1.vels[v])),
                   LAMBDA s2 :
              IF s2.vels[v].type = "comp" /\ s2.vels[v].forwardedEl # 0
              THEN With(Fresh(s2.comps), LAMBDA fc :
                   Log([s2 EXCEPT !.comps = (fc :> NewComp("comp", s2.vels[s2.vels[v].forwardedEl].cls,
                                                           c, s2.vels[s2.vels[v].forwardedEl].props))
                                            @@ s2.comps,
                                  !.comps[c].forwardedComp = fc],
                       "create", fc, c, s2.vels[v].forwardedEl, "comp"))
              ELSE s2)))

\* the non-root prologue of _capture (lines 369-383)
CaptureSetProps(s, v, c) ==
    With(Log([StateSet(StateSet([s EXCEPT !.vels[v] = [VelClear(s.vels[v]) EXCEPT
                                                          !.hasElementProps = TRUE,
                                                          !.elementProps = VelCopy(s.vels[v])]],
                                "OLDPROPS", V(v), s.comps[c].props),
                       "OLDSTATE", V(v), s.comps[c].state)
                 EXCEPT !.comps[c].props = s.vels[v].props],
             "setProps", c, 0, 0, Nil), LAMBDA s3 :
    IF ~Is(s3, "NEW", V(v)) THEN SetTag(s3, "UPDATED", V(v)) ELSE s3)

\* the root prologue of _capture (lines 358-366)
CaptureTopLevel(s, v, c) ==
    LET s1 == SetTag(SetTag(SetTag(SetTag(s, "MAPPED", V(v)), "MAPPED", C(c)),
                            "LINKED", V(v)), "LINKED", C(c))
    IN [s1 EXCEPT !.comps[c].hasData = TRUE,
                  !.vels[v].hasElementProps = s.comps[c].hasElementProps,
                  !.vels[v].elementProps = s.comps[c].elementProps]

\* content is a component descriptor: vel becomes forwarding (lines 399-406)
TakeForwarded(s, v, content) ==
    [s EXCEPT !.vels[v].forwardedEl = content,
              !.vels[v].isForwarding = TRUE,
              !.vels[v].children = <<content>>,
              !.vels[content].isForwarded = TRUE,
              !.vels[content].parent = v]

\* lines 417-419: the children are adopted by vel
RECURSIVE AdoptKids(_, _, _, _)
AdoptKids(s, v, kids, i) ==
    IF i > Len(kids) THEN s
    ELSE AdoptKids([s EXCEPT !.vels[kids[i]].parent = v], v, kids, i + 1)

\* content is an element descriptor: merged into vel (lines 407-420)
TakeElement(s, v, content) ==
    With(s.vels[content], LAMBDA cv :
    With([s EXCEPT !.vels[v] = [VelMerge(s.vels[v], VelCopy(cv)) EXCEPT
                                   !.tag = cv.tag,
                                   !.html = IF cv.html # Nil THEN cv.html ELSE @,
                                   !.children = IF cv.html # Nil THEN <<>> ELSE cv.children]],
         LAMBDA s1 :
    IF cv.html # Nil THEN s1 ELSE AdoptKids(s1, v, cv.children, 1)))

\* lines 425-436: the owner's element properties are laid over the rendered ones
OverlayElementProps(s, v, content) ==
    With([s EXCEPT !.vels[v].ctx = s.vels[content].ctx], LAMBDA s1 :
    IF ~s1.vels[v].hasElementProps THEN s1
    ELSE With([s1 EXCEPT !.vels[v] = VelMerge(s1.vels[v], s1.vels[v].elementProps)],
              LAMBDA s2 :
         IF s2.vels[v].isForwarding
         THEN [s2 EXCEPT !.vels[s2.vels[v].forwardedEl] =
                             VelMerge(s2.vels[s2.vels[v].forwardedEl], VelCopy(s2.vels[v]))]
         ELSE s2))

RECURSIVE Capture(_, _, _)
RECURSIVE CaptureAll(_, _, _)

\* lines 424-508: the content is taken over, linked, descended into and propagated
CaptureContent(s, v, c, content, isComponent) ==
    With(OverlayElementProps(IF isComponent THEN TakeForwarded(s, v, content)
                             ELSE TakeElement(s, v, content), v, content), LAMBDA s5 :
    With(ForEachComponent(IF ~Is(s5, "NEW", V(v)) /\ IsMounted(s5, c)
                          THEN SetTag(s5, "UPDATED", V(v)) ELSE s5, c, v, "link"), LAMBDA s7 :
    ForEachComponent(IF s7.vels[v].forwardedEl # 0
                     THEN Capture(s7, s7.vels[v].forwardedEl, FALSE)
                     ELSE CaptureAll(s7, s7.vels[v].children, 1), c, v, "propagate")))

\* variant of the needRerender branch that accepts any render result: what is not a
\* descriptor of an element or a component counts as empty content
CaptureRenderUnchecked(s, v, c) ==
    With(Len(s.ctxs) + 1, LAMBDA ctx :
    With(Len(s.vels) + 1, LAMBDA content :
    With(PushContext([s EXCEPT !.ctxs = Append(@, NewContext(v))], ctx), LAMBDA s1 :
    With(RenderOf(s1.comps[c].cls, s1.comps[c].props, s1.comps[c].state), LAMBDA t :
    With(Log(s1, "render", c, Len(s1.contexts), GetCurrentContext(s1), Nil), LAMBDA s2 :
    IF t.type \notin {"comp", "elem"} THEN PopContext(s2)
    ELSE CaptureContent(PopContext(Build(s2, t, ctx, 0)), v, c, content, t.type = "comp"))))))

\* the needRerender branch of _capture (lines 385-423): render() inside a pushed context
\* variant of lines 386-396 without the finally block: the context stays on the stack
\* when the render routine throws or returns nothing
CaptureRenderNoFinally(s, v, c) ==
    With(Len(s.ctxs) + 1, LAMBDA ctx :
    With(Len(s.vels) + 1, LAMBDA content :
    With(PushContext([s EXCEPT !.ctxs = Append(@, NewContext(v))], ctx), LAMBDA s1 :
    With(RenderOf(s1.comps[c].cls, s1.comps[c].props, s1.comps[c].state), LAMBDA t :
    With(Log(s1, "render", c, Len(s1.contexts), GetCurrentContext(s1), Nil), LAMBDA s2 :
    IF t.type = "nil" THEN Throw(s2, "EmptyRenderResult")
    ELSE With(PopContext(Build(s2, t, ctx, 0)), LAMBDA s3 :
         IF t.type \notin {"comp", "elem"} THEN Throw(s3, "InvalidRenderResult")
         ELSE CaptureContent(s3, v, c, content, t.type = "comp")))))))

CaptureRender(s, v, c) ==
    With(Len(s.ctxs) + 1, LAMBDA ctx :
    With(Len(s.vels) + 1, LAMBDA content :
    With(PushContext([s EXCEPT !.ctxs = Append(@, NewContext(v))], ctx), LAMBDA s1 :
    With(RenderOf(s1.comps[c].cls, s1.comps[c].props, s1.comps[c].state), LAMBDA t :
    With(Log(s1, "render", c, Len(s1.contexts), GetCurrentContext(s1), Nil), LAMBDA s2 :
    IF t.type = "nil" THEN Throw(PopContext(s2), "EmptyRenderResult")
    ELSE With(PopContext(Build(s2, t, ctx, 0)), LAMBDA s3 :
         IF t.type \notin {"comp", "elem"} THEN Throw(s3, "InvalidRenderResult")
         ELSE CaptureContent(s3, v, c, content, t.type = "comp")))))))

CaptureAll(s, list, i) ==
    IF ~Ok(s) \/ i > Len(list) THEN s
    ELSE CaptureAll(Capture(s, list[i], FALSE), list, i + 1)

\* variant of _capture that never asks shouldRerender: every component is rendered
CaptureAlwaysRender(s, v, c, top) ==
    IF s.vels[v].type = "comp"
    THEN SetTag(CaptureRender(IF top THEN CaptureTopLevel(s, v, c)
                              ELSE CaptureSetProps(s, v, c), v, c),
                "CAPTURED", V(v))
    ELSE IF s.vels[v].type = "elem"
    THEN SetTag(CaptureAll(s, s.vels[v].children, 1), "CAPTURED", V(v))
    ELSE SetTag(s, "CAPTURED", V(v))

\* _capture after the instance exists (lines 352-520)
CaptureWithComp(s, v, c, top) ==
    IF s.vels[v].type = "comp"
    THEN With(IF top THEN CaptureTopLevel(s, v, c) ELSE CaptureSetProps(s, v, c), LAMBDA s2 :
         SetTag(IF \/ top
                   \/ s.comps[c].el = 0
                   \/ ShouldRerender(s.comps[c].cls, s.comps[c].props, s.vels[v].props)
                THEN CaptureRender(s2, v, c)
                ELSE SetTag(s2, "SKIPPED", V(v)),
                "CAPTURED", V(v)))
    ELSE IF s.vels[v].type = "elem"
    THEN SetTag(CaptureAll(s, s.vels[v].children, 1), "CAPTURED", V(v))
    ELSE SetTag(s, "CAPTURED", V(v))

Capture(s, v, top) ==
    IF ~Ok(s) THEN s
    ELSE IF Is(s, "CAPTURED", V(v)) THEN s
    ELSE With(IF s.vels[v].comp = 0 THEN SetTag(Create(s, v), "NEW", V(v)) ELSE s, LAMBDA s1 :
         IF ~Ok(s1) THEN s1 ELSE CaptureWithComp(s1, v, s1.vels[v].comp, top))

\* --------------------------------------------------------------------------
\* Update phase: synchronising one concrete node with its descriptor
\* --------------------------------------------------------------------------
\* _updateHash: keys of the new hash whose value differs are set, keys only in the
\* old hash are removed; which is "attr" or "prop"
RECURSIVE HashSetLoop(_, _, _, _, _)
HashSetLoop(s, el, newHash, keys, which) ==
    IF keys = {} THEN s
    ELSE LET key == CHOOSE k \in keys : TRUE
             oldHash == IF which = "attr" THEN s.nodes[el].attrs ELSE s.nodes[el].props
             same == key \in DOMAIN oldHash /\ oldHash[key] = newHash[key]
             s1 == IF same THEN s
                   ELSE IF which = "attr"
                   THEN Log([s EXCEPT !.nodes[el].attrs = (key :> newHash[key]) @@ @],
                            "setAttribute", el, 0, 0, key)
                   ELSE Log([s EXCEPT !.nodes[el].props = (key :> newHash[key]) @@ @],
                            "setProperty", el, 0, 0, key)
         IN HashSetLoop(s1, el, newHash, keys \ {key}, which)

RECURSIVE HashRemoveLoop(_, _, _, _)
HashRemoveLoop(s, el, keys, which) ==
    IF keys = {} THEN s
    ELSE LET key == CHOOSE k \in keys : TRUE
             s1 == IF which = "attr"
                   THEN Log([s EXCEPT !.nodes[el].attrs =
                                Enumerated([k \in DOMAIN s.nodes[el].attrs \ {key} |->
                                               s.nodes[el].attrs[k]])],
                            "removeAttribute", el, 0, 0, key)
                   ELSE Log([s EXCEPT !.nodes[el].props =
                                Enumerated([k \in DOMAIN s.nodes[el].props \ {key} |->
                                               s.nodes[el].props[k]])],
                            "removeProperty", el, 0, 0, key)
         IN HashRemoveLoop(s1, el, keys \ {key}, which)

UpdateHash(s, el, newHash, which) ==
    LET oldHash == IF which = "attr" THEN s.nodes[el].attrs ELSE s.nodes[el].props
        s1 == HashSetLoop(s, el, newHash, DOMAIN newHash, which)
    IN HashRemoveLoop(s1, el, DOMAIN oldHash \ DOMAIN newHash, which)

RECURSIVE AddListeners(_, _, _, _)
AddListeners(s, el, ls, i) ==
    IF i > Len(ls) THEN s
    ELSE AddListeners(Log([s EXCEPT !.nodes[el].listeners = Append(@, ls[i])],
                          "addEventListener", el, 0, 0, ls[i]),
                      el, ls, i + 1)

\* _updateListeners: all listeners are removed and the new ones added again
UpdateListeners(s, el, newListeners) ==
    AddListeners(Log([s EXCEPT !.nodes[el].listeners = <<>>],
                     "removeAllEventListeners", el, Len(s.nodes[el].listeners), 0, Nil),
                 el, newListeners, 1)

GetInnerHTML(s, el) ==
    IF Len(s.nodes[el].children) = 1 /\ s.nodes[s.nodes[el].children[1]].kind = "text"
    THEN s.nodes[s.nodes[el].children[1]].text
    ELSE Nil

\* el.empty() followed by el.setInnerHTML(html): the content becomes one text node
SetInnerHTML(s, el, html) ==
    LET n == Fresh(s.nodes)
        kids == Range(s.nodes[el].children)
    IN Log([s EXCEPT !.nodes = (n :> [NewNode("text", Nil, html) EXCEPT !.parent = el])
                               @@ [k \in DOMAIN s.nodes |->
                                      IF k = el THEN [s.nodes[k] EXCEPT !.children = <<n>>]
                                      ELSE IF k \in kids THEN [s.nodes[k] EXCEPT !.parent = 0]
                                      ELSE s.nodes[k]]],
           "setInnerHTML", el, n, 0, html)

\* lines 1189-1201: raw inner content
UpdateInnerHTML(s, el, html) ==
    [(IF ~s.nodes[el].hasInnerHTML \/ GetInnerHTML(s, el) # html
      THEN SetInnerHTML(s, el, html)
      ELSE s) EXCEPT !.nodes[el].hasInnerHTML = TRUE]

UpdateDOMElement(s, el, v) ==
    IF ~Ok(s) THEN s
    ELSE IF s.vels[v].type = "text"
    THEN IF s.nodes[el].text # s.vels[v].text
         THEN Log([s EXCEPT !.nodes[el].text = s.vels[v].text],
                  "setTextContent", el, 0, 0, s.vels[v].text)
         ELSE s
    ELSE IF s.vels[v].tag = Nil THEN Throw(s, "TypeError")
    ELSE With(UpdateListeners(
                  UpdateHash(
                      UpdateHash(IF s.vels[v].tag # s.nodes[el].tag
                                 THEN Log([s EXCEPT !.nodes[el].tag = s.vels[v].tag],
                                          "setTagName", el, 0, 0, s.vels[v].tag)
                                 ELSE s,
                                 el, s.vels[v].attrs, "attr"),
                      el, s.vels[v].hprops, "prop"),
                  el, s.vels[v].listeners), LAMBDA s4 :
         IF s.vels[v].html = Nil THEN s4 ELSE UpdateInnerHTML(s4, el, s.vels[v].html))

\* _createDOMElement: the new node is Fresh(s.nodes)
CreateDOMElement(s, v) ==
    With(Fresh(s.nodes), LAMBDA el :
    With(IF s.vels[v].type = "text" THEN DomCreateTextNode(s, s.vels[v].text)
         ELSE DomCreateElement(s, s.vels[v].tag), LAMBDA s1 :
    UpdateDOMElement(IF s.vels[v].comp # 0 THEN [s1 EXCEPT !.nodes[el].comp = s.vels[v].comp]
                     ELSE s1, el, v)))

\* --------------------------------------------------------------------------
\* Update phase: attaching and detaching children, with their notifications
\* --------------------------------------------------------------------------
EngineTriggerDidMount(s, parent, child) ==
    IF Ok(s) /\ ~Is(s, "DETACHED", C(child)) /\ IsMounted(s, parent) /\ ~IsMounted(s, child)
    THEN TriggerDidMount(s, child)
    ELSE s

EngineAppendChild(s, parent, child) ==
    IF ~Ok(s) THEN s
    ELSE EngineTriggerDidMount(DomAppendChild(s, s.comps[parent].el, s.comps[child].el), parent, child)

\* variant of _replaceChild that swaps the nodes and tells nobody
ReplaceChildSilently(s, parent, oldChild, newChild) ==
    IF ~Ok(s) THEN s
    ELSE DomReplaceChild(s, s.comps[parent].el, s.comps[oldChild].el, s.comps[newChild].el)

EngineReplaceChild(s, parent, oldChild, newChild) ==
    IF ~Ok(s) THEN s
    ELSE With(DomReplaceChild(s, s.comps[parent].el, s.comps[oldChild].el, s.comps[newChild].el),
              LAMBDA s1 :
         EngineTriggerDidMount(IF ~Is(s1, "DETACHED", C(oldChild))
                               THEN TriggerDispose(s1, oldChild) ELSE s1,
                               parent, newChild))

\* variant of _insertChildBefore that ignores the reference child: the node goes last
InsertChildAtEnd(s, parent, child, before) == EngineAppendChild(s, parent, child)

EngineInsertChildBefore(s, parent, child, before) ==
    IF ~Ok(s) THEN s
    ELSE EngineTriggerDidMount(
             DomInsertBefore(s, s.comps[parent].el, s.comps[child].el, s.comps[before].el),
             parent, child)

\* variant of _removeChild that tells every removed instance, detached or not
RemoveChildAlwaysDispose(s, parent, child) ==
    IF ~Ok(s) THEN s
    ELSE TriggerDispose(DomRemoveChild(s, s.comps[parent].el, s.comps[child].el), child)

EngineRemoveChild(s, parent, child) ==
    IF ~Ok(s) THEN s
    ELSE With(DomRemoveChild(s, s.comps[parent].el, s.comps[child].el), LAMBDA s1 :
         IF ~Is(s1, "DETACHED", C(child)) THEN TriggerDispose(s1, child) ELSE s1)

\* --------------------------------------------------------------------------
\* Update phase: _update
\* --------------------------------------------------------------------------
ResolveRefs(s, refs) ==
    EnumeratedSeq([i \in 1..Len(refs) |-> <<refs[i][1], s.vels[refs[i][2]].comp>>])

\* _storeInternalData; the maps keep, per reference, the instance of the descriptor
StoreInternalData(s, c, v) ==
    IF ~Ok(s) THEN s
    ELSE LET cx == s.ctxs[s.vels[v].ctx]
         IN [s EXCEPT !.comps[c].hasData = TRUE,
                      !.comps[c].hasElementProps = s.vels[v].hasElementProps,
                      !.comps[c].elementProps = s.vels[v].elementProps,
                      !.comps[c].refs = ResolveRefs(s, cx.refs),
                      !.comps[c].foreignRefs = ResolveRefs(s, cx.foreignRefs),
                      !.comps[c].internalRefs = ResolveRefs(s, cx.internalRefs),
                      !.comps[c].publicRefs =
                          SelectSeq(ResolveRefs(s, cx.refs), LAMBDA e : e[2] # 0)]

RECURSIVE FindForwardingLoop(_, _, _)
FindForwardingLoop(s, c, current) ==
    IF current = 0 THEN 0
    ELSE IF GetParent(s, current) = c THEN current
    ELSE FindForwardingLoop(s, c, GetParent(s, current))

FindForwardingChildOfComponent(s, c, forwarded) ==
    FindForwardingLoop(s, c, GetParent(s, forwarded))

\* the instance that stands for child node n of c's node; 0 if the node is an orphan
OldChildOf(s, c, n) ==
    LET childComp == s.nodes[n].comp
    IN IF childComp = 0 THEN 0
       ELSE IF IsForwardedComp(s, childComp) THEN FindForwardingChildOfComponent(s, c, childComp)
       ELSE childComp

\* lines 783-806: orphaned nodes and the nodes of relocated instances are removed
\* returns [s, old]: the state and the instances kept as old children
RECURSIVE StripChildren(_, _, _, _, _)
StripChildren(s, c, childNodes, i, old) ==
    IF ~Ok(s) \/ i > Len(childNodes) THEN [s |-> s, old |-> old]
    ELSE LET n == childNodes[i]
             childComp == OldChildOf(s, c, n)
         IN IF childComp = 0 \/ Is(s, "RELOCATED", C(childComp))
            THEN StripChildren(DomRemoveChild(s, s.comps[c].el, n), c, childNodes, i + 1, old)
            ELSE StripChildren(s, c, childNodes, i + 1, Append(old, childComp))

RECURSIVE SkipDetached(_, _, _)
SkipDetached(s, old, pos1) ==
    IF pos1 < Len(old) /\ Is(s, "DETACHED", C(old[pos1 + 1]))
    THEN SkipDetached(s, old, pos1 + 1)
    ELSE pos1 + 1

\* lines 826-832: the rest of the old children is removed
RECURSIVE RemoveRemaining(_, _, _, _)
RemoveRemaining(s, c, old, pos1) ==
    IF ~Ok(s) \/ pos1 > Len(old) THEN s
    ELSE RemoveRemaining(EngineRemoveChild(s, c, old[pos1]), c, old, pos1 + 1)

\* lines 923-929: the node of c is replaced by the node of the new forwarded instance
ReplaceForwarded(s, c, forwardedComp, el, oldForwardedComp) ==
    IF oldForwardedComp = forwardedComp THEN s
    ELSE IF oldForwardedComp = 0 THEN Throw(s, "TypeError")
    ELSE IF s.nodes[el].parent = 0 THEN Throw(TriggerDispose(s, oldForwardedComp), "TypeError")
    ELSE With(DomReplaceChild(TriggerDispose(s, oldForwardedComp), s.nodes[el].parent, el,
                              s.comps[forwardedComp].el), LAMBDA s2 :
         TriggerDidMount(IF Ok(s2) THEN [s2 EXCEPT !.comps[c].el = s2.comps[forwardedComp].el]
                         ELSE s2, forwardedComp))

\* lines 912-931: a forwarding instance takes the node of its forwarded instance
AliasForwarded(s, c, v) ==
    IF ~Ok(s) \/ s.vels[v].forwardedEl = 0 THEN s
    ELSE IF s.comps[c].el = 0
    THEN [s EXCEPT !.comps[c].el = s.comps[s.vels[s.vels[v].forwardedEl].comp].el]
    ELSE ReplaceForwarded(s, c, s.vels[s.vels[v].forwardedEl].comp, s.comps[c].el,
                          s.nodes[s.comps[c].el].comp)

RECURSIVE Update(_, _)
RECURSIVE MergeChildren(_, _, _, _, _, _)

\* lines 863-903: newVel has been updated; its node is put where it belongs
\* p1, p2 are pos1, pos2 after their increments
PlaceChild(s, v, c, old, p1, p2, oldComp, newVel, newComp) ==
    IF ~Ok(s) THEN s
    ELSE IF newComp = oldComp THEN MergeChildren(s, v, c, old, p1, p2)
    ELSE With(IF Is(s, "RELOCATED", C(newComp)) THEN SetParent(s, newComp, c) ELSE s,
              LAMBDA s2 :
         IF oldComp = 0
         THEN MergeChildren(EngineAppendChild(s2, c, newComp), v, c, old, p1, p2)
         ELSE IF Is(s2, "LINKED", V(newVel))
         THEN IF Is(s2, "LINKED", C(oldComp))
              THEN MergeChildren(
                       EngineRemoveChild(SetTag(s2, "DETACHED", C(oldComp)), c, oldComp),
                       v, c, old, p1, p2 - 1)
              ELSE MergeChildren(EngineRemoveChild(s2, c, oldComp), v, c, old, p1, p2 - 1)
         ELSE IF Is(s2, "LINKED", C(oldComp))
         THEN MergeChildren(EngineInsertChildBefore(s2, c, newComp, oldComp),
                            v, c, old, p1 - 1, p2)
         ELSE MergeChildren(EngineReplaceChild(s2, c, oldComp, newComp), v, c, old, p1, p2))

\* variant of the loop round that links on the fly without asking whether the old
\* instance has been mapped
MergeStepAnyOld(s, v, c, old, p1, p2, oldComp, newVel) ==
    IF oldComp # 0 /\ newVel = 0 THEN RemoveRemaining(s, c, old, p1)
    ELSE IF newVel = 0 THEN Throw(s, "TypeError")
    ELSE IF /\ oldComp # 0
            /\ s.nodes[s.comps[oldComp].el].kind = "text"
            /\ s.vels[newVel].type = "text"
            /\ s.nodes[s.comps[oldComp].el].text = s.vels[newVel].text
    THEN MergeChildren(s, v, c, old, p1, p2)
    ELSE IF /\ oldComp # 0
            /\ s.comps[oldComp].kind = "elem"
            /\ s.vels[newVel].type = "elem"
            /\ ~Is(s, "MAPPED", V(newVel))
            /\ s.nodes[s.comps[oldComp].el].tag = s.vels[newVel].tag
    THEN MergeChildren(
             Update(SetTag(SetTag([s EXCEPT !.vels[newVel].comp = oldComp],
                                  "LINKED", V(newVel)), "LINKED", C(oldComp)),
                    newVel),
             v, c, old, p1, p2)
    ELSE With(IF ~Is(s, "RENDERED", V(newVel)) THEN Update(s, newVel) ELSE s, LAMBDA s1 :
         PlaceChild(s1, v, c, old, p1, p2, oldComp, newVel, s1.vels[newVel].comp))

\* one round of the loop of lines 813-904 for old child oldComp and new child newVel
\* (0 stands for undefined)
MergeStep(s, v, c, old, p1, p2, oldComp, newVel) ==
    IF oldComp # 0 /\ newVel = 0 THEN RemoveRemaining(s, c, old, p1)
    ELSE IF newVel = 0 THEN Throw(s, "TypeError")
    ELSE IF /\ oldComp # 0
            /\ s.nodes[s.comps[oldComp].el].kind = "text"
            /\ s.vels[newVel].type = "text"
            /\ s.nodes[s.comps[oldComp].el].text = s.vels[newVel].text
    THEN MergeChildren(s, v, c, old, p1, p2)
    ELSE IF /\ oldComp # 0
            /\ s.comps[oldComp].kind = "elem"
            /\ s.vels[newVel].type = "elem"
            /\ ~Is(s, "MAPPED", C(oldComp))
            /\ ~Is(s, "MAPPED", V(newVel))
            /\ s.nodes[s.comps[oldComp].el].tag = s.vels[newVel].tag
    THEN MergeChildren(
             Update(SetTag(SetTag([s EXCEPT !.vels[newVel].comp = oldComp],
                                  "LINKED", V(newVel)), "LINKED", C(oldComp)),
                    newVel),
             v, c, old, p1, p2)
    ELSE With(IF ~Is(s, "RENDERED", V(newVel)) THEN Update(s, newVel) ELSE s, LAMBDA s1 :
         PlaceChild(s1, v, c, old, p1, p2, oldComp, newVel, s1.vels[newVel].comp))

\* the dual-cursor loop of lines 812-904; pos1, pos2 as in the source (0-based)
MergeChildren(s, v, c, old, pos1, pos2) ==
    IF ~Ok(s) \/ ~(pos1 < Len(old) \/ pos2 < Len(s.vels[v].children)) THEN s
    ELSE With(SkipDetached(s, old, pos1), LAMBDA p1 :
         MergeStep(s, v, c, old, p1, pos2 + 1,
                   IF p1 <= Len(old) THEN old[p1] ELSE 0,
                   IF pos2 < Len(s.vels[v].children) THEN s.vels[v].children[pos2 + 1] ELSE 0))

\* lines 775-905: the child list of c's node is made to match the descriptor's
UpdateChildren(s, v, c) ==
    IF ~Ok(s) THEN s
    ELSE IF s.vels[v].type \in {"comp", "elem"} /\ s.vels[v].html = Nil
    THEN With(StripChildren(s, c, s.nodes[s.comps[c].el].children, 1, <<>>), LAMBDA r :
         MergeChildren(r.s, v, c, r.old, 0, 0))
    ELSE s

\* lines 765-905: the node of a non-forwarding descriptor and its child list
UpdateNode(s, v, c) ==
    UpdateChildren(IF s.comps[c].el = 0
                   THEN With(CreateDOMElement(s, v), LAMBDA s1 :
                        IF Ok(s1) THEN [s1 EXCEPT !.comps[c].el = Fresh(s.nodes)] ELSE s1)
                   ELSE UpdateDOMElement(s, s.comps[c].el, v),
                   v, c)

\* lines 908-935, comp as read at line 744
FinishUpdate(s, v, comp) ==
    With(IF s.vels[v].type = "comp"
         THEN IF comp = 0 THEN Throw(s, "TypeError")
              ELSE AliasForwarded(StoreInternalData(s, comp, v), comp, v)
         ELSE s, LAMBDA s3 :
    IF ~Ok(s3) THEN s3
    ELSE SetTag(SetTag(s3, "RENDERED", V(v)), "RENDERED", C(comp)))

\* variant of _update that captures every descriptor found without an instance and
\* goes on with the instance the capture attached
UpdateCapturingUnattached(s, v, comp) ==
    With(IF comp = 0 THEN Capture(s, v, FALSE) ELSE s, LAMBDA s1 :
    With(s1.vels[v].comp, LAMBDA c1 :
    FinishUpdate(IF ~Ok(s1) THEN s1
                 ELSE IF s1.vels[v].isForwarding THEN Update(s1, s1.vels[v].forwardedEl)
                 ELSE IF c1 = 0 THEN Throw(s1, "TypeError")
                 ELSE UpdateNode(s1, v, c1),
                 v, c1)))

\* lines 744-906, comp as read at line 744
UpdateWithComp(s, v, comp) ==
    With(IF comp = 0 /\ s.vels[v].ref # Nil /\ s.vels[v].prelim # s.vels[v].owner
         THEN Capture(s, v, FALSE)
         ELSE s, LAMBDA s1 :
    FinishUpdate(IF ~Ok(s1) THEN s1
                 ELSE IF s1.vels[v].isForwarding THEN Update(s1, s1.vels[v].forwardedEl)
                 ELSE IF comp = 0 THEN Throw(s1, "TypeError")
                 ELSE UpdateNode(s1, v, comp),
                 v, comp))

Update(s, v) ==
    IF ~Ok(s) THEN s
    ELSE IF Is(s, "SKIPPED", V(v)) THEN s
    ELSE UpdateWithComp(s, v, s.vels[v].comp)

\* --------------------------------------------------------------------------
\* Adoption of an existing concrete tree: _adopt, _createEl
\* --------------------------------------------------------------------------
RECURSIVE GetForwardedEl(_, _)
GetForwardedEl(s, v) ==
    IF s.vels[v].isForwarding THEN GetForwardedEl(s, s.vels[v].forwardedEl) ELSE v

RECURSIVE PropagateLoop(_, _, _)
PropagateLoop(s, p, el) ==
    IF ~Ok(s) \/ p = 0 THEN s
    ELSE IF ~s.vels[p].isForwarding THEN s
    ELSE IF s.vels[p].comp = 0 THEN Throw(s, "TypeError")
    ELSE PropagateLoop([s EXCEPT !.comps[s.vels[p].comp].el = el], s.vels[p].parent, el)

PropagateForwardedEl(s, v, el) ==
    IF ~Ok(s) \/ ~s.vels[v].isForwarded THEN s
    ELSE PropagateLoop(s, s.vels[v].parent, el)

RECURSIVE CreateEl(_, _)
RECURSIVE CreateElKids(_, _, _, _)
\* _createEl: the node it returns is Fresh(s.nodes) of the state it is called in
CreateEl(s, v) ==
    IF ~Ok(s) THEN s
    ELSE With(CreateDOMElement(s, v), LAMBDA s1 :
         With(PropagateForwardedEl(
                  IF ~Ok(s1) THEN s1
                  ELSE IF s1.vels[v].comp = 0 THEN Throw(s1, "TypeError")
                  ELSE [s1 EXCEPT !.comps[s1.vels[v].comp].el = Fresh(s.nodes)],
                  v, Fresh(s.nodes)), LAMBDA s3 :
         IF s.vels[v].type \in {"comp", "elem"}
         THEN CreateElKids(s3, Fresh(s.nodes), s.vels[v].children, 1)
         ELSE s3))

CreateElKids(s, el, kids, i) ==
    IF ~Ok(s) \/ i > Len(kids) THEN s
    ELSE CreateElKids(DomAppendChild(CreateEl(s, kids[i]), el, Fresh(s.nodes)), el, kids, i + 1)

RECURSIVE RemoveAll(_, _, _)
RemoveAll(s, existing, pos1) ==
    IF ~Ok(s) \/ pos1 > Len(existing) THEN s
    ELSE RemoveAll(DomRemove(s, existing[pos1]), existing, pos1 + 1)

RECURSIVE Adopt(_, _, _)
RECURSIVE AdoptChildren(_, _, _, _, _, _)
\* variant of _adopt that binds a descriptor to whatever node it is given
AdoptAnyNode(s, v, el) ==
    IF ~Ok(s) THEN s
    ELSE IF s.vels[v].comp = 0 THEN Throw(s, "TypeError")
    ELSE With(PropagateForwardedEl(
                  UpdateDOMElement([s EXCEPT !.comps[s.vels[v].comp].el = el], el, v),
                  v, el), LAMBDA s3 :
         IF ~Ok(s3) THEN s3
         ELSE IF s.vels[v].type \in {"comp", "elem"}
         THEN AdoptChildren(s3, el, s3.nodes[el].children, s3.vels[v].children, 1, 1)
         ELSE s3)

Adopt(s, v, el) ==
    IF ~Ok(s) THEN s
    ELSE IF s.vels[v].type \in {"comp", "elem"} /\ s.nodes[el].kind # "elem"
    THEN Throw(s, "IncompatibleElement")
    ELSE IF s.vels[v].comp = 0 THEN Throw(s, "TypeError")
    ELSE With(PropagateForwardedEl(
                  UpdateDOMElement([s EXCEPT !.comps[s.vels[v].comp].el = el], el, v),
                  v, el), LAMBDA s3 :
         IF ~Ok(s3) THEN s3
         ELSE IF s.vels[v].type \in {"comp", "elem"}
         THEN AdoptChildren(s3, el, s3.nodes[el].children, s3.vels[v].children, 1, 1)
         ELSE s3)

\* pos1, pos2 are the cursors of lines 950-987, counted from 1
AdoptChildren(s, el, existing, virtual, pos1, pos2) ==
    IF ~Ok(s) \/ ~(pos1 <= Len(existing) \/ pos2 <= Len(virtual)) THEN s
    ELSE IF pos2 > Len(virtual) THEN RemoveAll(s, existing, pos1)
    ELSE IF pos1 > Len(existing)
    THEN CreateElKids(s, el, SubSeq(virtual, pos2, Len(virtual)), 1)
    ELSE LET child1 == existing[pos1]
             child2 == GetForwardedEl(s, virtual[pos2])
         IN IF \/ s.nodes[child1].kind = "elem" /\ s.vels[child2].type \in {"elem", "comp"}
               \/ s.nodes[child1].kind = "text" /\ s.vels[child2].type = "text"
            THEN AdoptChildren(Adopt(s, child2, child1), el, existing, virtual, pos1 + 1, pos2 + 1)
            ELSE AdoptChildren(DomRemove(s, child1), el, existing, virtual, pos1 + 1, pos2)

\* --------------------------------------------------------------------------
\* Update notifications: _triggerDidUpdate
\* --------------------------------------------------------------------------
RECURSIVE TriggerDidUpdate(_, _)
RECURSIVE TriggerDidUpdateAll(_, _, _)
\* variant of _triggerDidUpdate that tells a component before its descendants
TriggerDidUpdateParentFirst(s, v) ==
    IF s.vels[v].type = "comp"
    THEN LET s1 == IF Is(s, "UPDATED", V(v))
                   THEN Log(s, "didUpdate", s.vels[v].comp,
                            IF HasKey(s, "OLDPROPS", V(v)) THEN StateGet(s, "OLDPROPS", V(v)) ELSE 0,
                            IF HasKey(s, "OLDSTATE", V(v)) THEN StateGet(s, "OLDSTATE", V(v)) ELSE 0,
                            Nil)
                   ELSE s
         IN IF ~Is(s, "SKIPPED", V(v))
            THEN TriggerDidUpdateAll(s1, s.vels[v].children, 1) ELSE s1
    ELSE IF s.vels[v].type = "elem"
    THEN TriggerDidUpdateAll(s, s.vels[v].children, 1)
    ELSE s

TriggerDidUpdateAll(s, list, i) ==
    IF i > Len(list) THEN s
    ELSE TriggerDidUpdateAll(TriggerDidUpdate(s, list[i]), list, i + 1)

TriggerDidUpdate(s, v) ==
    IF s.vels[v].type = "comp"
    THEN LET s1 == IF ~Is(s, "SKIPPED", V(v))
                   THEN TriggerDidUpdateAll(s, s.vels[v].children, 1) ELSE s
         IN IF Is(s1, "UPDATED", V(v))
            THEN Log(s1, "didUpdate", s1.vels[v].comp,
                     IF HasKey(s1, "OLDPROPS", V(v)) THEN StateGet(s1, "OLDPROPS", V(v)) ELSE 0,
                     IF HasKey(s1, "OLDSTATE", V(v)) THEN StateGet(s1, "OLDSTATE", V(v)) ELSE 0,
                     Nil)
            ELSE s1
    ELSE IF s.vels[v].type = "elem"
    THEN TriggerDidUpdateAll(s, s.vels[v].children, 1)
    ELSE s

\* --------------------------------------------------------------------------
\* The descriptor-builder entry point: RenderingEngine.createElement
\* --------------------------------------------------------------------------
\* keys are sequences of characters, so that the pattern /^on([A-Za-z]+)$/ and
\* toLowerCase() are computed, not assumed
UpperCaseLetters == <<"A", "B", "C", "D", "E", "F", "G", "H", "I", "J", "K", "L", "M",
                      "N", "O", "P", "Q", "R", "S", "T", "U", "V", "W", "X", "Y", "Z">>
LowerCaseLetters == <<"a", "b", "c", "d", "e", "f", "g", "h", "i", "j", "k", "l", "m",
                      "n", "o", "p", "q", "r", "s", "t", "u", "v", "w", "x", "y", "z">>

IsLetter(ch) == ch \in Range(UpperCaseLetters) \cup Range(LowerCaseLetters)

ToLowerChar(ch) ==
    IF ch \in Range(UpperCaseLetters)
    THEN LowerCaseLetters[CHOOSE i \in 1..Len(UpperCaseLetters) : UpperCaseLetters[i] = ch]
    ELSE ch

ToLowerCase(str) == EnumeratedSeq([i \in 1..Len(str) |-> ToLowerChar(str[i])])

\* /^on([A-Za-z]+)$/.exec(key): the captured group, or <<>> when there is no match
OnMatch(key) ==
    IF /\ Len(key) >= 3
       /\ key[1] = "o" /\ key[2] = "n"
       /\ \A i \in 3..Len(key) : IsLetter(key[i])
    THEN SubSeq(key, 3, Len(key))
    ELSE <<>>

KeyClassName == <<"c", "l", "a", "s", "s", "N", "a", "m", "e">>
KeyStyle == <<"s", "t", "y", "l", "e">>
KeyRef == <<"r", "e", "f">>
KeyOnClick == <<"o", "n", "C", "l", "i", "c", "k">>
KeyOnce == <<"o", "n", "c", "e">>
KeyOn == <<"o", "n">>
KeyOn1 == <<"o", "n", "1">>
KeyType == <<"t", "y", "p", "e">>
KeyValue == <<"v", "a", "l", "u", "e">>
KeyChecked == <<"c", "h", "e", "c", "k", "e", "d">>
KeySelected == <<"s", "e", "l", "e", "c", "t", "e", "d">>
KeyId == <<"i", "d">>
KeyTitle == <<"t", "i", "t", "l", "e">>

\* the keys a caller may put into the property bag, and their values ("" is falsy)
JsxKeys == {KeyClassName, KeyStyle, KeyRef, KeyOnClick, KeyOnce, KeyOn, KeyOn1, KeyType,
            KeyValue, KeyChecked, KeySelected, KeyId, KeyTitle}
\* the value of the i-th key is "" (falsy; for the keys whose value is tested for
\* truth) or a value that tells which key it came with
FalsyTestedKeys == {KeyClassName, KeyStyle, KeyRef}
JsxValue(i) == <<"v1", "v2", "v3", "v4">>[i]
JsxValuesOf(key, i) == IF key \in FalsyTestedKeys THEN {"", JsxValue(i)} ELSE {JsxValue(i)}
\* the children arguments of a call
JsxKidLists == {<<>>, <<"k1">>, <<"k1", "k2">>, <<"k2", "k1">>}
JsxTypes == {[isString |-> TRUE, name |-> "input"], [isString |-> FALSE, name |-> "Foo"]}

Truthy(val) == val # ""

\* the local accumulators of createElement (lines 159-165)
EmptyAcc ==
    [props |-> EmptyMap, classNames |-> Nil, styles |-> Nil, attributes |-> EmptyMap,
     htmlProps |-> EmptyMap, eventListeners |-> <<>>, ref |-> Nil]

\* variant of the key switch that registers listeners under the name as written
RouteKeyAsWritten(acc, type, key, val) ==
    IF key = KeyClassName THEN [acc EXCEPT !.classNames = val]
    ELSE IF key = KeyStyle THEN [acc EXCEPT !.styles = val]
    ELSE IF key = KeyRef THEN [acc EXCEPT !.ref = val]
    ELSE IF OnMatch(key) # <<>>
    THEN [acc EXCEPT !.eventListeners = Append(@, <<OnMatch(key), val>>)]
    ELSE IF type.isString
    THEN IF key \in {KeyType, KeyValue, KeyChecked, KeySelected}
         THEN [acc EXCEPT !.attributes = (key :> val) @@ @, !.htmlProps = (key :> val) @@ @]
         ELSE [acc EXCEPT !.attributes = (key :> val) @@ @]
    ELSE IF key = KeyId THEN [acc EXCEPT !.attributes = (key :> val) @@ @]
    ELSE [acc EXCEPT !.props = (key :> val) @@ @]

\* the switch of lines 170-229 for one key of the property bag
RouteKey(acc, type, key, val) ==
    IF key = KeyClassName THEN [acc EXCEPT !.classNames = val]
    ELSE IF key = KeyStyle THEN [acc EXCEPT !.styles = val]
    ELSE IF key = KeyRef THEN [acc EXCEPT !.ref = val]
    ELSE IF OnMatch(key) # <<>>
    THEN [acc EXCEPT !.eventListeners = Append(@, <<ToLowerCase(OnMatch(key)), val>>)]
    ELSE IF type.isString
    THEN IF key \in {KeyType, KeyValue, KeyChecked, KeySelected}
         THEN [acc EXCEPT !.attributes = (key :> val) @@ @, !.htmlProps = (key :> val) @@ @]
         ELSE [acc EXCEPT !.attributes = (key :> val) @@ @]
    ELSE IF key = KeyId THEN [acc EXCEPT !.attributes = (key :> val) @@ @]
    ELSE [acc EXCEPT !.props = (key :> val) @@ @]

\* the loop over Object.keys(props) (lines 166-231); bag is a sequence of <<key, value>>
RECURSIVE RouteKeys(_, _, _, _)
RouteKeys(acc, type, bag, i) ==
    IF i > Len(bag) THEN acc
    ELSE RouteKeys(RouteKey(acc, type, bag[i][1], bag[i][2]), type, bag, i + 1)

\* renderingContext.$$(type, _props): a descriptor with nothing set on it yet
NewDescriptor(type, props) ==
    [type |-> type, props |-> props, ref |-> Nil, classNames |-> <<>>, styles |-> <<>>,
     attrs |-> EmptyMap, hprops |-> EmptyMap, listeners |-> <<>>, children |-> <<>>]

\* lines 233-248: the accumulators are applied to the new descriptor
ApplyAcc(el, acc, kids) ==
    [el EXCEPT !.ref = IF Truthy(acc.ref) /\ acc.ref # Nil THEN acc.ref ELSE @,
               !.classNames = IF Truthy(acc.classNames) /\ acc.classNames # Nil
                              THEN Append(@, acc.classNames) ELSE @,
               !.styles = IF Truthy(acc.styles) /\ acc.styles # Nil
                          THEN Append(@, acc.styles) ELSE @,
               !.attrs = acc.attributes @@ @,
               !.hprops = acc.htmlProps @@ @,
               !.listeners = @ \o acc.eventListeners,
               !.children = IF Len(kids) > 0 THEN @ \o kids ELSE @]

\* createElement(type, props, ...children); s supplies this._state and its contexts
CreateElement(s, state, type, bag, kids) ==
    IF state = 0 \/ GetCurrentContext(s) = 0
    THEN [status |-> "thrown", type |-> type, bag |-> bag, kids |-> kids,
          el |-> NewDescriptor(type, EmptyMap)]
    ELSE [status |-> "returned", type |-> type, bag |-> bag, kids |-> kids,
          el |-> ApplyAcc(NewDescriptor(type, RouteKeys(EmptyAcc, type, bag, 1).props),
                          RouteKeys(EmptyAcc, type, bag, 1), kids)]

NoCall ==
    [status |-> "none", type |-> [isString |-> TRUE, name |-> Nil], bag |-> <<>>,
     kids |-> <<>>, el |-> NewDescriptor([isString |-> TRUE, name |-> Nil], EmptyMap)]

\* --------------------------------------------------------------------------
\* The engine as a state machine
\* --------------------------------------------------------------------------
RootComp == 1
Container == 1

World ==
    [comps |-> comps, nodes |-> nodes, vels |-> vels, ctxs |-> ctxs, info |-> info,
     polluted |-> polluted, contexts |-> contexts, log |-> log, err |-> err, sid |-> pass]

Commit(s) ==
    /\ comps' = s.comps
    /\ nodes' = s.nodes
    /\ vels' = s.vels
    /\ ctxs' = s.ctxs
    /\ info' = s.info
    /\ polluted' = s.polluted
    /\ contexts' = s.contexts
    /\ log' = s.log
    /\ err' = s.err

\* _createState, with the descriptors and the call log of the previous pass dropped
NewPass(rootState) ==
    [World EXCEPT !.sid = pass + 1, !.polluted = <<>>, !.contexts = <<>>, !.log = <<>>,
                  !.err = NoErr, !.vels = <<>>, !.ctxs = <<>>,
                  !.comps[RootComp].state = rootState]

\* _createWrappingVirtualComponent
WrappingVirtualComponent(s, c) ==
    [NewVel(Co(s.comps[c].cls, Nil, s.comps[c].props), 0, 0, 0) EXCEPT !.comp = c]

PhaseAfter(s, next) == IF Ok(s) THEN next ELSE "failed"

Init ==
    /\ comps = (RootComp :> NewComp("comp", "Root", 0, 0))
    /\ nodes = (Container :> NewNode("elem", "body", Nil))
    /\ vels = <<>>
    /\ ctxs = <<>>
    /\ info = [k \in {} |-> [t \in {} |-> TRUE]]
    /\ polluted = <<>>
    /\ contexts = <<>>
    /\ log = <<>>
    /\ err = NoErr
    /\ phase = "idle"
    /\ rootVel = 0
    /\ pass = 0
    /\ entry = "none"
    /\ engineState = 0
    /\ pre = [comps |-> comps, nodes |-> nodes, ok |-> TRUE, entry |-> entry]
    /\ menu \in Menus
    /\ jsx = NoCall
    /\ registry = Unused
    /\ services = Unused
    /\ fragmenter = Unused

\* _render, lines 261-275: the root component re-renders with tree k
StartRender(k) ==
    /\ phase = "idle"
    /\ pass < MaxPasses
    /\ k \in menu
    /\ comps[RootComp].el # 0 => nodes[comps[RootComp].el].kind = "elem"
    /\ LET s0 == NewPass(k)
           s1 == [s0 EXCEPT !.vels = <<WrappingVirtualComponent(s0, RootComp)>>]
           s2 == IF comps[RootComp].el # 0
                 THEN StateSet(StateSet(s1, "OLDPROPS", V(1), comps[RootComp].props),
                               "OLDSTATE", V(1), comps[RootComp].state)
                 ELSE s1
           s3 == Capture(s2, 1, TRUE)
       IN /\ Commit(s3)
          /\ phase' = PhaseAfter(s3, "captured")
    /\ rootVel' = 1
    /\ pass' = pass + 1
    /\ entry' = "render"
    /\ engineState' = pass + 1
    /\ pre' = [comps |-> comps, nodes |-> nodes, ok |-> err = NoErr, entry |-> entry]
    /\ UNCHANGED <<menu, jsx, registry, services, fragmenter>>

\* markup that exists before adoption: what tree t looks like when rendered elsewhere
\* the node built is Fresh(ns) of the table it is called with
RECURSIVE BuildDom(_, _)
RECURSIVE BuildDomKids(_, _, _, _)
BuildDom(ns, t) ==
    IF t.type = "text" THEN (Fresh(ns) :> NewNode("text", Nil, t.text)) @@ ns
    ELSE IF t.type = "comp" THEN BuildDom(ns, RenderOf(t.cls, t.props, 0))
    ELSE LET n == Fresh(ns)
         IN BuildDomKids((n :> [NewNode("elem", t.tag, Nil) EXCEPT !.attrs = t.attrs]) @@ ns,
                         n, IF t.html # Nil THEN <<Tx(t.html)>> ELSE t.kids, 1)

BuildDomKids(ns, n, kids, i) ==
    IF i > Len(kids) THEN ns
    ELSE LET kid == Fresh(ns)
             ns1 == BuildDom(ns, kids[i])
         IN BuildDomKids([ns1 EXCEPT ![n].children = Append(@, kid), ![kid].parent = n],
                         n, kids, i + 1)

\* _render with options.adoptElement: the root component is given existing markup
StartAdopt(k, d) ==
    /\ phase = "idle"
    /\ pass = 0
    /\ comps[RootComp].el = 0
    /\ k \in menu
    /\ d \in menu
    /\ LET el == Fresh(nodes)
           dom == BuildDom(nodes, Templates[d])
           s0 == [NewPass(k) EXCEPT !.nodes = [dom EXCEPT ![Container].children = <<el>>,
                                                          ![el].parent = Container],
                                    !.comps[RootComp].el = el]
           s1 == [s0 EXCEPT !.vels = <<WrappingVirtualComponent(s0, RootComp)>>]
           s2 == Capture(s1, 1, TRUE)
       IN /\ Commit(s2)
          /\ phase' = PhaseAfter(s2, "captured")
          /\ pre' = [comps |-> s0.comps, nodes |-> s0.nodes, ok |-> err = NoErr, entry |-> entry]
    /\ rootVel' = 1
    /\ pass' = pass + 1
    /\ entry' = "adopt"
    /\ engineState' = pass + 1
    /\ UNCHANGED <<menu, jsx, registry, services, fragmenter>>

\* _renderChild: descriptor k is rendered as a child of the root component
StartRenderChild(k) ==
    /\ phase = "idle"
    /\ pass < MaxPasses
    /\ comps[RootComp].el # 0
    /\ nodes[comps[RootComp].el].kind = "elem"
    /\ k \in ChildTemplates
    /\ LET s0 == [NewPass(comps[RootComp].state) EXCEPT
                     !.vels = <<[NewVel(NilResult, 0, 0, 0) EXCEPT !.type = "fake",
                                                                   !.comp = RootComp],
                                WrappingVirtualComponent(World, RootComp)>>,
                     !.ctxs = <<NewContext(2)>>]
           s1 == Build(s0, Templates[k], 1, 1)
           s2 == Capture(s1, 3, FALSE)
       IN /\ Commit(s2)
          /\ phase' = PhaseAfter(s2, "captured")
    /\ rootVel' = 3
    /\ pass' = pass + 1
    /\ entry' = "renderChild"
    /\ engineState' = pass + 1
    /\ pre' = [comps |-> comps, nodes |-> nodes, ok |-> err = NoErr, entry |-> entry]
    /\ UNCHANGED <<menu, jsx, registry, services, fragmenter>>

\* _update(state, vel) of _render (line 295) and of _renderChild (line 324)
UpdateStep ==
    /\ phase = "captured"
    /\ entry \in {"render", "renderChild"}
    /\ LET s == Update(World, rootVel)
       IN /\ Commit(s)
          /\ phase' = PhaseAfter(s, IF entry = "render" THEN "updated" ELSE "finishing")
    /\ UNCHANGED <<rootVel, pass, entry, engineState, pre, menu, jsx, registry, services, fragmenter>>

\* lines 286-287
AdoptStep ==
    /\ phase = "captured"
    /\ entry = "adopt"
    /\ LET s == Adopt(World, GetForwardedEl(World, rootVel), comps[RootComp].el)
       IN /\ Commit(s)
          /\ phase' = PhaseAfter(s, "finishing")
    /\ UNCHANGED <<rootVel, pass, entry, engineState, pre, menu, jsx, registry, services, fragmenter>>

\* line 300
DidUpdateStep ==
    /\ phase = "updated"
    /\ Commit(TriggerDidUpdate(World, rootVel))
    /\ phase' = "finishing"
    /\ UNCHANGED <<rootVel, pass, entry, engineState, pre, menu, jsx, registry, services, fragmenter>>

\* the finally blocks (lines 302-309 and 326-328)
Finally ==
    /\ phase \in {"finishing", "failed"}
    /\ Commit(StateDispose(World))
    /\ phase' = "idle"
    /\ engineState' = IF entry = "renderChild" THEN engineState ELSE 0
    /\ UNCHANGED <<rootVel, pass, entry, pre, menu, jsx, registry, services, fragmenter>>

\* Component.mount: the root node is put into the document and the tree is told
MountRoot ==
    /\ phase = "idle"
    /\ comps[RootComp].el # 0
    /\ ~comps[RootComp].mounted
    /\ LET s1 == DomAppendChild(World, Container, comps[RootComp].el)
           s2 == TriggerDidMount(s1, RootComp)
       IN /\ comps' = s2.comps
          /\ nodes' = s2.nodes
    /\ UNCHANGED <<vels, ctxs, info, polluted, contexts, log, err, phase, rootVel, pass,
                   entry, engineState, pre, menu, jsx, registry, services, fragmenter>>

Next ==
    \/ \E k \in 1..Len(Templates) : StartRender(k)
    \/ \E k \in 1..Len(Templates), d \in 1..Len(Templates) : StartAdopt(k, d)
    \/ \E k \in ChildTemplates : StartRenderChild(k)
    \/ UpdateStep
    \/ AdoptStep
    \/ DidUpdateStep
    \/ Finally
    \/ MountRoot

Spec == Init /\ [][Next]_vars

\* --------------------------------------------------------------------------
\* createElement called on its own: once outside a pass, once while the render
\* routine of the root component runs, once after an incremental pass has left its
\* disposed state behind (_renderChild does not reset this._state)
\* --------------------------------------------------------------------------
\* property bags: up to MaxKeys distinct keys in the order the caller wrote them
RECURSIVE BagsOfLen(_)
BagsOfLen(n) ==
    IF n = 0 THEN {<<>>}
    ELSE UNION {{Append(b, <<k, x>>) : x \in JsxValuesOf(k, n)} :
                   b \in BagsOfLen(n - 1), k \in JsxKeys}

DistinctKeys(b) == \A i, j \in 1..Len(b) : i # j => b[i][1] # b[j][1]

JsxBags == {b \in UNION {BagsOfLen(n) : n \in 0..MaxKeys} : DistinctKeys(b)}

InitJSX ==
    /\ comps = (RootComp :> NewComp("comp", "Root", 0, 0))
    /\ nodes = (Container :> NewNode("elem", "body", Nil))
    /\ info = [k \in {} |-> [t \in {} |-> TRUE]]
    /\ polluted = <<>>
    /\ log = <<>>
    /\ err = NoErr
    /\ rootVel = 0
    /\ entry = "none"
    /\ pre = [comps |-> comps, nodes |-> nodes, ok |-> TRUE, entry |-> entry]
    /\ menu = {1, 2, 3}
    /\ jsx = NoCall
    /\ registry = Unused
    /\ services = Unused
    /\ fragmenter = Unused
    /\ \/ /\ phase = "idle" /\ pass = 0 /\ engineState = 0
          /\ vels = <<>> /\ ctxs = <<>> /\ contexts = <<>>
       \/ /\ phase = "rendering" /\ pass = 1 /\ engineState = 1
          /\ vels = <<[NewVel(Co("Root", Nil, 0), 0, 0, 0) EXCEPT !.comp = RootComp]>>
          /\ ctxs = <<NewContext(1)>> /\ contexts = <<1>>
       \/ /\ phase = "idle" /\ pass = 1 /\ engineState = 1
          /\ vels = <<>> /\ ctxs = <<>> /\ contexts = <<>>

\* a caller invokes createElement with a type, a property bag and children
CreateElementCall ==
    /\ jsx.status = "none"
    /\ \E type \in JsxTypes, bag \in JsxBags, kids \in JsxKidLists :
          jsx' = CreateElement(World, engineState, type, bag, kids)
    /\ UNCHANGED <<comps, nodes, vels, ctxs, info, polluted, contexts, log, err, phase,
                   rootVel, pass, entry, engineState, pre, menu, registry, services,
                   fragmenter>>

NextJSX == CreateElementCall

SpecJSX == InitJSX /\ [][NextJSX]_vars

\* --------------------------------------------------------------------------
\* The update phase started on a tree in which one component descriptor has been
\* left without an instance: an injected child the capture phase did not reach
\* (comment of lines 746-752). The capture sources that produce such descriptors
\* are not part of the module, so the starting worlds are first-pass captures from
\* which the instance of one descriptor of the root's render call, and everything
\* captured below it, is taken away again
\* --------------------------------------------------------------------------
FirstPass(k) ==
    With([comps |-> (RootComp :> [NewComp("comp", "Root", 0, 0) EXCEPT !.state = k]),
          nodes |-> (Container :> NewNode("elem", "body", Nil)),
          vels |-> <<>>, ctxs |-> <<>>, info |-> [j \in {} |-> [t \in {} |-> TRUE]],
          polluted |-> <<>>, contexts |-> <<>>, log |-> <<>>, err |-> NoErr, sid |-> 1],
         LAMBDA s0 :
    Capture([s0 EXCEPT !.vels = <<WrappingVirtualComponent(s0, RootComp)>>], 1, TRUE))

\* instance x is c or has been created below c
RECURSIVE CreatedUnder(_, _, _)
CreatedUnder(s, x, c) ==
    x # 0 /\ (x = c \/ CreatedUnder(s, s.comps[x].parent, c))

\* the component descriptors of the root's render call
InjectableVels(s) ==
    {w \in Range(s.ctxs[s.vels[1].ctx].components) : s.vels[w].comp # 0}

Uncaptured(s, w) ==
    With({x \in DOMAIN s.comps : CreatedUnder(s, x, s.vels[w].comp)}, LAMBDA gone :
    With({u \in 1..Len(s.vels) : s.vels[u].comp \in gone}, LAMBDA dead :
    [s EXCEPT
       !.comps = Enumerated([x \in DOMAIN s.comps \ gone |-> s.comps[x]]),
       !.vels = EnumeratedSeq([u \in 1..Len(s.vels) |->
                    IF u = w
                    THEN [NewVel(Co(s.vels[w].cls, s.vels[w].ref, s.vels[w].props),
                                 s.vels[1].ctx, s.vels[w].owner, s.vels[w].parent)
                          EXCEPT !.isForwarded = s.vels[w].isForwarded]
                    ELSE IF u \in dead THEN [s.vels[u] EXCEPT !.comp = 0]
                    ELSE s.vels[u]]),
       !.info = Enumerated([j \in {i \in DOMAIN s.info :
                                      ~(\/ i[2] = "comp" /\ i[3] \in gone
                                        \/ i[2] = "vel" /\ i[3] \in dead)}
                            |-> s.info[j]]),
       !.polluted = SelectSeq(s.polluted, LAMBDA o :
                        ~(\/ o[1] = "comp" /\ o[2] \in gone
                          \/ o[1] = "vel" /\ o[2] \in dead)),
       !.log = SelectSeq(s.log, LAMBDA e : e.a \notin gone)]))

\* the world s as the variables' values
Commit0(s) ==
    /\ comps = s.comps
    /\ nodes = s.nodes
    /\ vels = s.vels
    /\ ctxs = s.ctxs
    /\ info = s.info
    /\ polluted = s.polluted
    /\ contexts = s.contexts
    /\ log = s.log
    /\ err = s.err

InitUpdate ==
    \E k \in 1..Len(Templates) :
        /\ Ok(FirstPass(k))
        /\ \E w \in InjectableVels(FirstPass(k)) \cup {0} :
              /\ Commit0(IF w = 0 THEN FirstPass(k) ELSE Uncaptured(FirstPass(k), w))
              /\ phase = "captured"
              /\ rootVel = 1
              /\ pass = 1
              /\ entry = "render"
              /\ engineState = 1
              /\ pre = [comps |-> (RootComp :> NewComp("comp", "Root", 0, 0)),
                        nodes |-> (Container :> NewNode("elem", "body", Nil)),
                        ok |-> TRUE, entry |-> "none"]
              /\ menu = {k}
              /\ jsx = NoCall
              /\ registry = Unused
              /\ services = Unused
              /\ fragmenter = Unused

NextUpdate == UpdateStep \/ DidUpdateStep \/ Finally

SpecUpdate == InitUpdate /\ [][NextUpdate]_vars

\* --------------------------------------------------------------------------
\* DeprecatedRegistry (util/Registry.js): add, remove, clear and forEach are called in
\* any order on one registry
\* --------------------------------------------------------------------------
MaxCalls == 4

\* keys: three ordinary names and one that is a property of every plain object
RegistryNames == {"a", "b", "c", "toString"}
\* PLAINOBJ[name] is truthy
IsObjectProperty(name) == name = "toString"
\* entries; the validator, when there is one, throws on "bad"
RegistryEntries == {"e1", "e2", "bad"}
ValidatorThrows(value) == value = "bad"

\* what a call left behind besides the registry itself: the error it threw, the names
\* the callback of forEach was called with, and the values it was handed
NoCallYet == [op |-> "none", name |-> Nil, threw |-> FALSE, visited |-> <<>>, stopAt |-> {}]

NewRegistry(hasValidator) ==
    [status |-> "ready", entries |-> EmptyMap, names |-> <<>>, hasValidator |-> hasValidator,
     calls |-> 0, addedAt |-> EmptyMap, last |-> NoCallYet]

\* contains, line 30
RegistryContains(r, name) == name \in DOMAIN r.entries

\* variant of remove that leaves the names list alone
RemoveEntryOnly(r, name) ==
    [r EXCEPT !.entries = Enumerated([k \in DOMAIN r.entries \ {name} |-> r.entries[k]])]

\* remove, lines 63-69: splice takes out the first occurrence
RegistryRemove(r, name) ==
    [r EXCEPT !.names = IF IndexOf(r.names, name) > 0
                        THEN SubSeq(r.names, 1, IndexOf(r.names, name) - 1)
                             \o SubSeq(r.names, IndexOf(r.names, name) + 1, Len(r.names))
                        ELSE r.names,
              !.entries = Enumerated([k \in DOMAIN r.entries \ {name} |-> r.entries[k]])]

\* add, lines 42-54; a throw leaves the call before anything is written
RegistryAdd(r, name, value) ==
    IF r.hasValidator /\ ValidatorThrows(value)
    THEN [r EXCEPT !.last = [NoCallYet EXCEPT !.op = "add", !.name = name, !.threw = TRUE]]
    ELSE IF IsObjectProperty(name)
    THEN [r EXCEPT !.last = [NoCallYet EXCEPT !.op = "add", !.name = name, !.threw = TRUE]]
    ELSE With(IF RegistryContains(r, name) THEN RegistryRemove(r, name) ELSE r, LAMBDA r1 :
         [r1 EXCEPT !.entries = (name :> value) @@ r1.entries,
                    !.names = Append(r1.names, name),
                    !.addedAt = (name :> (r.calls + 1)) @@ r.addedAt,
                    !.last = [NoCallYet EXCEPT !.op = "add", !.name = name]])

\* clear, lines 75-78
RegistryClear(r) ==
    [r EXCEPT !.names = <<>>, !.entries = EmptyMap, !.last = [NoCallYet EXCEPT !.op = "clear"]]

\* forEach, lines 101-109, with a callback that returns false for the names in stopAt;
\* visited collects <<entry, name>> as the callback receives them
\* this.entries[name]: undefined for a name that is not a key
RegistryGet(r, name) == IF name \in DOMAIN r.entries THEN r.entries[name] ELSE Nil

RECURSIVE ForEachLoop(_, _, _, _)
ForEachLoop(r, stopAt, i, visited) ==
    IF i > Len(r.names) THEN visited
    ELSE IF r.names[i] \in stopAt
    THEN Append(visited, <<RegistryGet(r, r.names[i]), r.names[i]>>)
    ELSE ForEachLoop(r, stopAt, i + 1, Append(visited, <<RegistryGet(r, r.names[i]), r.names[i]>>))

RegistryForEach(r, stopAt) ==
    [r EXCEPT !.last = [NoCallYet EXCEPT !.op = "forEach", !.stopAt = stopAt,
                                         !.visited = ForEachLoop(r, stopAt, 1, <<>>)]]

EngineUnused ==
    /\ comps = (RootComp :> NewComp("comp", "Root", 0, 0))
    /\ nodes = (Container :> NewNode("elem", "body", Nil))
    /\ vels = <<>>
    /\ ctxs = <<>>
    /\ info = [k \in {} |-> [t \in {} |-> TRUE]]
    /\ polluted = <<>>
    /\ contexts = <<>>
    /\ log = <<>>
    /\ err = NoErr
    /\ phase = "idle"
    /\ rootVel = 0
    /\ pass = 0
    /\ entry = "none"
    /\ engineState = 0
    /\ pre = [comps |-> comps, nodes |-> nodes, ok |-> TRUE, entry |-> entry]
    /\ menu = {1, 2, 3}
    /\ jsx = NoCall

engineVars == <<comps, nodes, vels, ctxs, info, polluted, contexts, log, err, phase,
                rootVel, pass, entry, engineState, pre, menu, jsx>>

InitRegistry ==
    /\ EngineUnused
    /\ \E hasValidator \in BOOLEAN : registry = NewRegistry(hasValidator)
    /\ services = Unused
    /\ fragmenter = Unused

Called(r) == [r EXCEPT !.calls = registry.calls + 1]

AddCall ==
    /\ registry.calls < MaxCalls
    /\ \E name \in RegistryNames, value \in RegistryEntries :
          registry' = Called(RegistryAdd(registry, name, value))
    /\ UNCHANGED <<engineVars, services, fragmenter>>

RemoveCall ==
    /\ registry.calls < MaxCalls
    /\ \E name \in RegistryNames :
          registry' = Called([RegistryRemove(registry, name) EXCEPT
                                 !.last = [NoCallYet EXCEPT !.op = "remove", !.name = name]])
    /\ UNCHANGED <<engineVars, services, fragmenter>>

ClearCall ==
    /\ registry.calls < MaxCalls
    /\ registry' = Called(RegistryClear(registry))
    /\ UNCHANGED <<engineVars, services, fragmenter>>

ForEachCall ==
    /\ registry.calls < MaxCalls
    /\ \E stopAt \in SUBSET (RegistryNames \ {"toString"}) :
          registry' = Called(RegistryForEach(registry, stopAt))
    /\ UNCHANGED <<engineVars, services, fragmenter>>

NextRegistry == AddCall \/ RemoveCall \/ ClearCall \/ ForEachCall

SpecRegistry == InitRegistry /\ [][NextRegistry]_vars

\* --------------------------------------------------------------------------
\* Configurator services (editor/Configurator.js): one configuration without parent,
\* one service id. A factory call makes a new service object, numbered by the call;
\* a factory that works asynchronously returns a promise for it,
\* which resolves at some later time
\* --------------------------------------------------------------------------
Null == [kind |-> "null", k |-> 0]
Rejected == [kind |-> "rejected", k |-> 0]
Undefined == [kind |-> "undefined", k |-> 0]
ServiceObject(k) == [kind |-> "object", k |-> k]
PromiseOf(k) == [kind |-> "promise", k |-> k]
IsPromise(x) == x.kind = "promise"

\* hasEntry: addService has been called; instance: entry.instance;
\* resolved: the factory promises that have resolved; waiting: the promises returned
\* to callers of getService that have not delivered yet, each with the factory
\* promise it follows and whether its callback stores the instance (lines 229-232);
\* received: what each call has handed to its caller so far (Null: nothing yet)
NewServices(async) ==
    [status |-> "ready", async |-> async, hasEntry |-> FALSE, instance |-> Null,
     factoryCalls |-> 0, resolved |-> {}, waiting |-> {}, received |-> <<>>]

\* entry.factory(context)
CallFactory(sv) == [sv EXCEPT !.factoryCalls = @ + 1]
FactoryResult(sv) ==
    IF sv.async THEN PromiseOf(sv.factoryCalls + 1) ELSE ServiceObject(sv.factoryCalls + 1)

\* a caller that was handed promise x (or the value x) has it delivered at once when
\* x is a value or a promise that has resolved
Deliver(sv, x, stores) ==
    IF ~IsPromise(x) THEN [sv EXCEPT !.received = Append(@, x)]
    ELSE IF x.k \in sv.resolved THEN [sv EXCEPT !.received = Append(@, ServiceObject(x.k))]
    ELSE [sv EXCEPT !.received = Append(@, Null),
                    !.waiting = @ \cup {[caller |-> Len(sv.received) + 1, promise |-> x.k,
                                         stores |-> stores]}]

\* getService, lines 222-241
GetService(sv) ==
    IF ~sv.hasEntry THEN [sv EXCEPT !.received = Append(@, Rejected)]
    ELSE IF sv.instance # Null THEN Deliver(sv, sv.instance, FALSE)
    ELSE IF IsPromise(FactoryResult(sv))
    THEN Deliver(CallFactory(sv), FactoryResult(sv), TRUE)
    ELSE Deliver([CallFactory(sv) EXCEPT !.instance = FactoryResult(sv)], FactoryResult(sv), FALSE)

\* getServiceSync, lines 244-255: the caller gets what the factory returned
GetServiceSync(sv) ==
    IF ~sv.hasEntry THEN [sv EXCEPT !.received = Append(@, Undefined)]
    ELSE IF sv.instance # Null THEN [sv EXCEPT !.received = Append(@, sv.instance)]
    ELSE [CallFactory(sv) EXCEPT !.instance = FactoryResult(sv),
                                 !.received = Append(@, FactoryResult(sv))]

\* factory promise k resolves with service object k: the callbacks of the promises
\* that follow it run, those of lines 229-232 store the instance
ResolveFactoryPromise(sv, k) ==
    [sv EXCEPT !.resolved = @ \cup {k},
               !.instance = IF \E w \in sv.waiting : w.promise = k /\ w.stores THEN ServiceObject(k) ELSE @,
               !.waiting = {w \in @ : w.promise # k},
               !.received = EnumeratedSeq([i \in 1..Len(sv.received) |->
                               IF \E w \in sv.waiting : w.promise = k /\ w.caller = i
                               THEN ServiceObject(k) ELSE sv.received[i]])]

InitServices ==
    /\ EngineUnused
    /\ registry = Unused
    /\ \E async \in BOOLEAN : services = NewServices(async)
    /\ fragmenter = Unused

\* addService, lines 212-220, on a service id that is not defined yet
AddServiceCall ==
    /\ ~services.hasEntry
    /\ services' = [services EXCEPT !.hasEntry = TRUE, !.instance = Null]
    /\ UNCHANGED <<engineVars, registry, fragmenter>>

GetServiceCall ==
    /\ Len(services.received) < MaxCalls
    /\ services' = GetService(services)
    /\ UNCHANGED <<engineVars, registry, fragmenter>>

GetServiceSyncCall ==
    /\ Len(services.received) < MaxCalls
    /\ services' = GetServiceSync(services)
    /\ UNCHANGED <<engineVars, registry, fragmenter>>

\* a pending factory promise resolves
PromiseResolves ==
    /\ \E k \in 1..services.factoryCalls :
          /\ services.async
          /\ k \notin services.resolved
          /\ services' = ResolveFactoryPromise(services, k)
    /\ UNCHANGED <<engineVars, registry, fragmenter>>

NextServices == AddServiceCall \/ GetServiceCall \/ GetServiceSyncCall \/ PromiseResolves

SpecServices == InitServices /\ [][NextServices]_vars

\* --------------------------------------------------------------------------
\* Fragmenter (model/Fragmenter.js). Boundaries are objects that the run mutates and
\* that point at each other (opener, closer), so they live in a table, objs, and are
\* named by their index in it; 0 stands for undefined. A context is named by the
\* number of the onOpen call that returned it, the root context is 0
\* --------------------------------------------------------------------------
OPEN == 1
CLOSE == -1
ANCHOR == -2

ALWAYS_ON_TOP == 0
NORMAL == 100
SHOULD_NOT_SPLIT == 1000

MaxText == 5
MaxAnnos == 3

Alphabet == <<"a", "b", "c", "d", "e", "f", "g">>
Texts == {SubSeq(Alphabet, 1, n) : n \in 0..MaxText}
Weights == {ALWAYS_ON_TOP, NORMAL, SHOULD_NOT_SPLIT}

\* the annotations of a text of length n: ranges with a fragment weight, and anchors
AnnotationsOf(n) ==
    [start : 0..n, end : 0..n, weight : Weights, anchor : {FALSE}]
        \cup {[start |-> o, end |-> o, weight |-> NORMAL, anchor |-> TRUE] : o \in 0..n}

WellFormed(a) == a.start <= a.end /\ (a.start = a.end => a.weight = NORMAL)

AnnotationLists(n) ==
    UNION {[1..k -> {a \in AnnotationsOf(n) : WellFormed(a)}] : k \in 0..MaxAnnos}

NewBoundary(type, offset, node, endOffset, weight, fragmentCount, closer, opener) ==
    [type |-> type, offset |-> offset, node |-> node, endOffset |-> endOffset,
     weight |-> weight, fragmentCount |-> fragmentCount, closer |-> closer,
     opener |-> opener, stackLevel |-> 0, length |-> 0]

RECURSIVE CompareBoundaries(_, _, _)
CompareBoundaries(objs, a, b) ==
    IF objs[a].offset < objs[b].offset THEN -1
    ELSE IF objs[a].offset > objs[b].offset THEN 1
    ELSE IF objs[a].type < objs[b].type THEN -1
    ELSE IF objs[a].type > objs[b].type THEN 1
    ELSE IF objs[a].type = OPEN
    THEN IF objs[a].endOffset > objs[b].endOffset THEN -1
         ELSE IF objs[a].endOffset < objs[b].endOffset THEN 1
         ELSE IF objs[a].weight > objs[b].weight THEN -1
         ELSE IF objs[a].weight < objs[b].weight THEN 1
         ELSE IF objs[a].stackLevel # 0 /\ objs[b].stackLevel # 0
         THEN objs[a].stackLevel - objs[b].stackLevel
         ELSE 0
    ELSE IF objs[a].type = CLOSE
    THEN 0 - CompareBoundaries(objs, objs[a].opener, objs[b].opener)
    ELSE 0

RECURSIVE InsertIndex(_, _, _, _)
InsertIndex(objs, B, b, idx) ==
    IF idx > Len(B) THEN Len(B) + 1
    ELSE IF CompareBoundaries(objs, b, B[idx]) = -1 THEN idx
    ELSE InsertIndex(objs, B, b, idx + 1)

\* _insertBoundary with startIndex 0
InsertBoundary(objs, B, b) == InsertAt(B, InsertIndex(objs, B, b, 1), b)

\* Array.prototype.sort with _compareBoundaries: a stable sort
RECURSIVE SortInsert(_, _, _)
SortInsert(objs, q, x) ==
    IF q = <<>> THEN <<x>>
    ELSE IF CompareBoundaries(objs, q[Len(q)], x) > 0
    THEN Append(SortInsert(objs, SubSeq(q, 1, Len(q) - 1), x), q[Len(q)])
    ELSE Append(q, x)

RECURSIVE SortBoundaries(_, _)
SortBoundaries(objs, q) ==
    IF q = <<>> THEN <<>>
    ELSE SortInsert(objs, SortBoundaries(objs, SubSeq(q, 1, Len(q) - 1)), q[Len(q)])

\* the boundaries _init makes of one annotation, appended to the table
BoundariesOf(objs, annotations, i) ==
    IF annotations[i].anchor \/ annotations[i].start = annotations[i].end
    THEN Append(objs, NewBoundary(ANCHOR, annotations[i].start, i, annotations[i].start, 0, 0, 0, 0))
    ELSE objs \o <<NewBoundary(OPEN, annotations[i].start, i, annotations[i].end,
                               annotations[i].weight, 0, Len(objs) + 2, 0),
                   NewBoundary(CLOSE, annotations[i].end, i, 0, 0, 0, 0, Len(objs) + 1)>>

RECURSIVE InitObjects(_, _)
InitObjects(annotations, i) ==
    IF i = 0 THEN <<>> ELSE BoundariesOf(InitObjects(annotations, i - 1), annotations, i)

RunFrom(text, annotations, objs) ==
    [status |-> "running", text |-> text, annotations |-> annotations, objs |-> objs,
     B |-> SortBoundaries(objs, [i \in 1..Len(objs) |-> i]),
     S |-> <<[context |-> 0, entry |-> 0]>>,
     currentPos |-> 0, runs |-> 0, maxRuns |-> 2 * Len(objs),
     log |-> <<>>, opened |-> 0, threw |-> "none"]

\* _init
FragmenterInit(text, annotations) ==
    RunFrom(text, annotations, InitObjects(annotations, Len(annotations)))

\* a call of onText, onOpen or onClose; the fragment's fields are those at the call
FragmenterCall(op, fragment, objs, context, parent, text, at) ==
    [op |-> op, fragment |-> fragment,
     type |-> IF fragment = 0 THEN 0 ELSE objs[fragment].type,
     node |-> IF fragment = 0 THEN 0 ELSE objs[fragment].node,
     from |-> IF fragment = 0 THEN at ELSE objs[fragment].offset,
     to |-> IF fragment = 0 THEN at + Len(text) ELSE objs[fragment].endOffset,
     context |-> context, parent |-> parent, text |-> text]

TOP(f) == f.S[Len(f.S)]

OnText(f, context, text) ==
    [f EXCEPT !.log = Append(@, FragmenterCall("onText", 0, f.objs, context, 0, text, f.currentPos))]

\* lines 30-34
TextBefore(f, b) ==
    IF f.objs[b].offset > f.currentPos
    THEN [OnText(f, TOP(f).context, SubSeq(f.text, f.currentPos + 1, f.objs[b].offset))
            EXCEPT !.currentPos = f.objs[b].offset]
    ELSE f

\* onOpen returns a new context, numbered f.opened + 1
OnOpen(f, b, parent) ==
    [f EXCEPT !.opened = @ + 1,
              !.log = Append(@, FragmenterCall("onOpen", b, f.objs, f.opened + 1, parent, <<>>, 0))]

OnClose(f, b, context, parent) ==
    [f EXCEPT !.log = Append(@, FragmenterCall("onClose", b, f.objs, context, parent, <<>>, 0))]

SetLength(f, o) == [f EXCEPT !.objs[o].length = f.objs[o].endOffset - f.objs[o].offset]

\* _close
FragmenterClose(f, b, context, parent) ==
    IF f.objs[b].type = CLOSE
    THEN OnClose(SetLength(f, f.objs[b].opener), f.objs[b].opener, context, parent)
    ELSE OnClose(f, b, context, parent)

PushEntry(f, b) == [f EXCEPT !.S = Append(@, [context |-> f.opened, entry |-> b])]

\* lines 59-61 and 91-92
OpenAndPush(f, b, parent) == PushEntry(OnOpen(f, b, parent), b)

\* case ANCHOR
StepAnchor(f, b) ==
    FragmenterClose(OnOpen(f, b, TOP(f).context), b, f.opened + 1, TOP(f).context)

RECURSIVE CloserRun(_, _)
CloserRun(f, n) ==
    IF /\ n < Len(f.B)
       /\ f.objs[f.B[n + 1]].type = CLOSE
       /\ f.objs[f.B[n + 1]].offset = f.objs[f.B[1]].offset
    THEN CloserRun(f, n + 1)
    ELSE n

\* activeOpeners[node.id] after the loop of lines 230-233: the lowest entry of the node
ActiveOpener(f, node) ==
    IF \E i \in 2..Len(f.S) : f.objs[f.S[i].entry].node = node
    THEN f.S[CHOOSE i \in 2..Len(f.S) :
                /\ f.objs[f.S[i].entry].node = node
                /\ \A j \in 2..Len(f.S) : f.objs[f.S[j].entry].node = node => i <= j].entry
    ELSE 0

Reattached(f, closers) ==
    EnumeratedSeq([i \in 1..Len(f.objs) |->
        IF i \in Range(closers)
        THEN [f.objs[i] EXCEPT !.opener = ActiveOpener(f, f.objs[i].node)]
        ELSE f.objs[i]])

FixClosers(f, closers) ==
    IF \E i \in 1..Len(closers) : ActiveOpener(f, f.objs[closers[i]].node) = 0
    THEN [f EXCEPT !.threw = "no opener for closer"]
    ELSE [f EXCEPT !.objs = Reattached(f, closers),
                   !.B = SortBoundaries(Reattached(f, closers), closers)
                            \o SubSeq(f.B, Len(closers) + 1, Len(f.B))]

\* _fixOrderOfClosers with startIndex 0; console.assert does not throw
FixOrderOfClosers(f) == FixClosers(f, SubSeq(f.B, 1, CloserRun(f, 1)))

\* case CLOSE; reading entry.node of the root entry is a TypeError
StepClose(f, b) ==
    IF TOP(f).entry = 0 THEN [f EXCEPT !.threw = "TypeError"]
    ELSE IF f.objs[TOP(f).entry].node # f.objs[b].node
    THEN FixOrderOfClosers([f EXCEPT !.B = <<b>> \o f.B])
    ELSE FragmenterClose([f EXCEPT !.S = SubSeq(f.S, 1, Len(f.S) - 1)], b,
                         TOP(f).context, f.S[Len(f.S) - 1].context)

\* the closer and the opener a split makes of fragment x at offset at (lines 67-83
\* and 99-115), appended to the table, and x cut at that offset
SplitObjects(f, x, at) ==
    [Append(Append(f.objs,
                   NewBoundary(CLOSE, at, f.objs[x].node, 0, 0, 0, 0, x)),
            NewBoundary(OPEN, at, f.objs[x].node, f.objs[x].endOffset, f.objs[x].weight,
                        f.objs[x].fragmentCount + 1, f.objs[x].closer, 0))
        EXCEPT ![f.objs[x].closer].opener = Len(f.objs) + 2,
               ![x].closer = Len(f.objs) + 1,
               ![x].endOffset = at]

InsertBoth(objs, B, closer, opener) ==
    InsertBoundary(objs, InsertBoundary(objs, B, closer), opener)

Split(f, x, at) ==
    [f EXCEPT !.objs = SplitObjects(f, x, at),
              !.B = InsertBoth(SplitObjects(f, x, at), f.B, Len(f.objs) + 1, Len(f.objs) + 2)]

SetStackLevel(f, b) == [f EXCEPT !.objs[b].stackLevel = Len(f.S)]

\* case OPEN
StepOpen(f, b) ==
    IF TOP(f).entry = 0 \/ f.objs[TOP(f).entry].endOffset >= f.objs[b].endOffset
    THEN OpenAndPush(SetStackLevel(f, b), b, TOP(f).context)
    ELSE IF f.objs[b].weight <= f.objs[TOP(f).entry].weight
    THEN OpenAndPush(Split(SetStackLevel(f, b), b, f.objs[TOP(f).entry].endOffset), b,
                     TOP(f).context)
    ELSE Split([f EXCEPT !.B = <<b>> \o f.B], TOP(f).entry, f.objs[b].offset)

Dispatch(f, b) ==
    IF f.objs[b].type = ANCHOR THEN StepAnchor(f, b)
    ELSE IF f.objs[b].type = CLOSE THEN StepClose(f, b)
    ELSE StepOpen(f, b)

\* one iteration of the loop of lines 25-131
Iteration(f) ==
    IF f.runs + 1 > f.maxRuns
    THEN [f EXCEPT !.runs = @ + 1, !.threw = "infinity loop"]
    ELSE Dispatch(TextBefore([f EXCEPT !.runs = @ + 1, !.B = Tail(f.B)], Head(f.B)), Head(f.B))

\* lines 133-136
TrailingText(f) ==
    IF f.currentPos < Len(f.text)
    THEN [OnText(f, 0, SubSeq(f.text, f.currentPos + 1, Len(f.text))) EXCEPT !.status = "done"]
    ELSE [f EXCEPT !.status = "done"]

RECURSIVE Loop(_)
Loop(f) ==
    IF f.threw # "none" THEN [f EXCEPT !.status = "threw"]
    ELSE IF f.B = <<>> THEN TrailingText(f)
    ELSE Loop(Iteration(f))

\* start(rootContext, text, annotations)
FragmenterStart(text, annotations) == Loop(FragmenterInit(text, annotations))

InitFragmenter ==
    /\ EngineUnused
    /\ registry = Unused
    /\ services = Unused
    /\ \E text \in Texts : \E annotations \in AnnotationLists(Len(text)) :
          fragmenter = [status |-> "input", text |-> text, annotations |-> annotations]

StartCall ==
    /\ fragmenter.status = "input"
    /\ fragmenter' = FragmenterStart(fragmenter.text, fragmenter.annotations)
    /\ UNCHANGED <<engineVars, registry, services>>

NextFragmenter == StartCall

SpecFragmenter == InitFragmenter /\ [][NextFragmenter]_vars

\* --------------------------------------------------------------------------
\* Properties
\* --------------------------------------------------------------------------
\* the update phase of the running pass has returned normally
AfterUpdate ==
    /\ phase \in {"updated", "finishing"}
    /\ entry \in {"render", "renderChild"}
    /\ err = NoErr

LogHas(op) == \E i \in 1..Len(log) : log[i].op = op

\* the descriptors _update has worked through whose node has a child list of its own
ProcessedParents ==
    {v \in 1..Len(vels) : /\ Is(World, "RENDERED", V(v))
                          /\ vels[v].type \in {"comp", "elem"}
                          /\ ~vels[v].isForwarding
                          /\ vels[v].html = Nil}

\* child node n stands for new child descriptor k
ChildCorresponds(n, k) ==
    IF vels[k].type = "text"
    THEN nodes[n].kind = "text" /\ nodes[n].text = vels[k].text
    ELSE vels[k].comp # 0 /\ comps[vels[k].comp].el = n

ChildListMatches(v) ==
    LET el == comps[vels[v].comp].el
    IN /\ el # 0
       /\ Len(nodes[el].children) = Len(vels[v].children)
       /\ \A i \in 1..Len(vels[v].children) :
              ChildCorresponds(nodes[el].children[i], vels[v].children[i])

\* C1: after the update phase has processed a non-forwarding element/component
\* descriptor without raw inner content, the child nodes of its instance's node
\* correspond one-to-one and in order to the descriptor's new children (the node of
\* the attached instance, or for a text child a text node with the same content)
C1_ChildSequenceMatches ==
    AfterUpdate => \A v \in ProcessedParents : ChildListMatches(v)

\* C1 witness: an update that removed, inserted and appended children has finished
C1_Witness ==
    /\ AfterUpdate
    /\ LogHas("insertBefore") /\ LogHas("removeChild") /\ LogHas("appendChild")
    /\ LogHas("dispose")
    /\ \E v \in ProcessedParents : Len(vels[v].children) >= 2 /\ ChildListMatches(v)

\* the reference map a component's render call has filled in the running pass
RefsOf(v) == ctxs[vels[v].ctx].refs

\* component descriptors that have been updated together with their own render output
RenderedComps ==
    {v \in 1..Len(vels) : /\ vels[v].type = "comp"
                          /\ Is(World, "RENDERED", V(v))
                          /\ vels[v].ctx # 0
                          /\ vels[v].comp \in DOMAIN pre.comps}

Disposed(d) == \E j \in 1..Len(log) : log[j].op = "dispose" /\ log[j].a = d
CreatedFor(w) == \E j \in 1..Len(log) : log[j].op = "create" /\ log[j].c = w

\* reference r of instance c's render output named a component of class cls the last
\* time c was updated
HadRef(c, r, cls) ==
    /\ MapGet(pre.comps[c].refs, r) # 0
    /\ pre.comps[MapGet(pre.comps[c].refs, r)].kind = "comp"
    /\ pre.comps[MapGet(pre.comps[c].refs, r)].cls = cls

\* descriptor w, referenced as r in the render output of descriptor v, kept its instance
RefKept(v, r, w) ==
    /\ vels[w].comp = MapGet(pre.comps[vels[v].comp].refs, r)
    /\ ~Disposed(vels[w].comp)
    /\ ~CreatedFor(w)

\* C2: a component descriptor with reference r and class C that a component renders
\* in one pass and again in the next is attached to the same instance; the instance
\* is not disposed and no instance is created for the descriptor
C2_ReferenceStability ==
    AfterUpdate =>
        \A v \in RenderedComps : \A i \in 1..Len(RefsOf(v)) :
            (/\ vels[RefsOf(v)[i][2]].type = "comp"
             /\ HadRef(vels[v].comp, RefsOf(v)[i][1], vels[RefsOf(v)[i][2]].cls))
            => RefKept(v, RefsOf(v)[i][1], RefsOf(v)[i][2])

\* C2 witness: a referenced child kept its instance while its node changed position
C2_Witness ==
    /\ AfterUpdate
    /\ \E v \in RenderedComps : \E i \in 1..Len(RefsOf(v)) :
        LET w == RefsOf(v)[i][2]
            n == comps[vels[w].comp].el
        IN /\ vels[w].type = "comp"
           /\ HadRef(vels[v].comp, RefsOf(v)[i][1], vels[w].cls)
           /\ RefKept(v, RefsOf(v)[i][1], w)
           /\ n = pre.comps[vels[w].comp].el
           /\ pre.nodes[n].parent # 0
           /\ pre.nodes[n].parent = nodes[n].parent
           /\ IndexOf(pre.nodes[pre.nodes[n].parent].children, n)
                  # IndexOf(nodes[nodes[n].parent].children, n)

DisposeCount(d) == Cardinality({j \in 1..Len(log) : log[j].op = "dispose" /\ log[j].a = d})

\* the update phase took the node of instance d out of its parent
NodeTakenOut(d) ==
    \E j \in 1..Len(log) : /\ log[j].op \in {"removeChild", "replaceChild"}
                           /\ log[j].b = pre.comps[d].el

\* instances that had an attached node before the pass, whose node the update phase
\* removed or replaced, and to which no descriptor of the pass is linked
RemovedUnlinked ==
    {d \in DOMAIN pre.comps :
        /\ pre.comps[d].el # 0
        /\ pre.nodes[pre.comps[d].el].parent # 0
        /\ pre.nodes[pre.comps[d].el].comp = d
        /\ NodeTakenOut(d)
        /\ ~Is(World, "LINKED", C(d))
        /\ \A v \in 1..Len(vels) : vels[v].comp # d}

\* instances moved by the pass: tagged relocated, or detached for re-ordering
MovedInstances ==
    {d \in DOMAIN pre.comps :
        /\ Is(World, "LINKED", C(d))
        /\ Is(World, "RELOCATED", C(d)) \/ Is(World, "DETACHED", C(d))}

C3_RemovedDisposedOnce == AfterUpdate => \A d \in RemovedUnlinked : DisposeCount(d) = 1
C3_MovedNotDisposed == AfterUpdate => \A d \in MovedInstances : DisposeCount(d) = 0

\* C3: in one pass every child instance removed or replaced because no descriptor
\* links to it receives exactly one dispose notification, and an instance that is
\* relocated or detached for re-ordering receives none
C3_DisposalExactlyOnce == C3_RemovedDisposedOnce /\ C3_MovedNotDisposed

\* the node instance d had when the call was made
NodeOfInstance(d) == IF d \in DOMAIN pre.comps /\ pre.comps[d].el # 0 THEN pre.comps[d].el
                     ELSE comps[d].el

\* C4: whenever the update phase removes or replaces a child instance, the dispose
\* notification of the instance fires before its node is taken out of the parent
\* node: the node is still attached when dispose runs
C4_DisposeBeforeDetach ==
    AfterUpdate =>
        \A j \in 1..Len(log) :
            log[j].op = "dispose" =>
                /\ log[j].b # 0
                /\ ~\E i \in 1..(j - 1) :
                       /\ log[i].op \in {"removeChild", "replaceChild"}
                       /\ log[i].b = NodeOfInstance(log[j].a)

\* the didUpdate notifications and the root's pass have been delivered
AfterDidUpdate ==
    /\ phase = "finishing"
    /\ entry = "render"
    /\ err = NoErr

Rerendered(d) == \E j \in 1..Len(log) : log[j].op = "render" /\ log[j].a = d
GotDidUpdate(d) == \E j \in 1..Len(log) : log[j].op = "didUpdate" /\ log[j].a = d

C5_NewGetNoUpdate ==
    AfterDidUpdate => \A d \in DOMAIN comps : GotDidUpdate(d) => d \in DOMAIN pre.comps
C5_UnmountedGetNoUpdate ==
    AfterDidUpdate => \A d \in DOMAIN pre.comps : GotDidUpdate(d) => pre.comps[d].mounted
C5_SkippedGetNoUpdate ==
    AfterDidUpdate => \A d \in DOMAIN comps : GotDidUpdate(d) => Rerendered(d)

\* C5: an update notification is delivered only to instances that were re-rendered
\* in the pass while already mounted; a newly created instance, an instance that is
\* not mounted and an instance whose re-render was skipped receive none
C5_UpdateNotification ==
    C5_NewGetNoUpdate /\ C5_UnmountedGetNoUpdate /\ C5_SkippedGetNoUpdate

\* the running pass re-renders a mounted root that declares the same tree as in the
\* pass before, which had returned normally
SameTreeAgain ==
    /\ entry = "render"
    /\ pre.entry = "render"
    /\ pre.ok
    /\ pre.comps[RootComp].mounted
    /\ pre.comps[RootComp].state = comps[RootComp].state

StructureOps == {"createElement", "createTextNode", "appendChild", "insertBefore",
                 "removeChild", "replaceChild"}
ContentOps == {"setAttribute", "removeAttribute", "setProperty", "removeProperty",
               "setTextContent", "setTagName", "setInnerHTML"}
ListenerOps == {"addEventListener", "removeAllEventListeners"}
NotificationOps == {"didUpdate", "didMount", "dispose"}

NoneOf(ops) == \A j \in 1..Len(log) : log[j].op \notin ops

\* C6: a second full pass on a mounted root that declares the same tree as in the
\* pass before performs no mutation of the target tree (structure, attributes,
\* properties, text, listeners) and fires no update, mount or dispose notification
C6_Idempotence ==
    (AfterDidUpdate /\ SameTreeAgain) =>
        NoneOf(StructureOps \cup ContentOps \cup ListenerOps \cup NotificationOps)

AttachOps == {"appendChild", "insertBefore", "replaceChild"}

\* the call before log entry j put the node of instance d under a parent node
AttachedJustBefore(j, d) ==
    /\ j > 1
    /\ log[j - 1].op \in AttachOps
    /\ comps[d].el \in {log[j - 1].b, log[j - 1].c}

MountCount(d) == Cardinality({j \in 1..Len(log) : log[j].op = "didMount" /\ log[j].a = d})

\* C7: during the update phase an instance receives a mount notification only when
\* its node is attached under a mounted parent while it is not mounted itself, at
\* most once in a pass, and never when it was mounted before the pass
C7_MountExactlyOnce ==
    AfterUpdate =>
        \A j \in 1..Len(log) :
            log[j].op = "didMount" =>
                /\ AttachedJustBefore(j, log[j].a)
                /\ log[j].b # 0
                /\ pre.comps[RootComp].mounted
                /\ ~(log[j].a \in DOMAIN pre.comps /\ pre.comps[log[j].a].mounted)
                /\ MountCount(log[j].a) = 1

\* the pass has run to its end without throwing
PassCompleted == phase = "finishing" /\ err = NoErr

\* forwarding descriptors the pass has worked through
ForwardingVels ==
    {v \in 1..Len(vels) : /\ vels[v].type = "comp"
                          /\ vels[v].isForwarding
                          /\ vels[v].comp # 0
                          /\ (entry = "adopt" \/ Is(World, "RENDERED", V(v)))}

\* C8: no concrete node is created for a forwarding descriptor itself, and after
\* every completed pass (update or adoption) the node of a forwarding instance is
\* the node of its forwarded descendant
C8_ForwardingTransparency ==
    /\ \A v \in 1..Len(vels) :
          (vels[v].type = "comp" /\ vels[v].isForwarding /\ vels[v].comp # 0) =>
              \A j \in 1..Len(log) :
                  log[j].op = "createElement" => nodes[log[j].a].comp # vels[v].comp
    /\ PassCompleted =>
          \A v \in ForwardingVels :
              /\ comps[vels[v].comp].el # 0
              /\ comps[vels[v].comp].el = comps[vels[vels[v].forwardedEl].comp].el

\* the root declared [A, B, C] in the pass before, which returned normally, and
\* declares [A, X, B, C] in the running pass
InsertScenario ==
    /\ AfterUpdate
    /\ entry = "render"
    /\ pre.entry = "render"
    /\ pre.ok
    /\ Templates[pre.comps[RootComp].state] = Div(<<FooA, FooB, FooC>>)
    /\ Templates[comps[RootComp].state] = Div(<<FooA, BarX, FooB, FooC>>)

\* calls of kind op made on the child list of node el
OpsOn(op, el) == {j \in 1..Len(log) : log[j].op = op /\ log[j].a = el}

\* C9: when the old child sequence is [A, B, C] and the new one [A, X, B, C], with
\* A, B, C referenced and X new, the merge performs exactly one insert (X before B),
\* no remove and no replace on the parent node, and no dispose notification fires
C9_ChildListMinimality ==
    InsertScenario =>
        LET el == comps[RootComp].el
            kids == vels[rootVel].children
        IN /\ Cardinality(OpsOn("insertBefore", el)) = 1
           /\ \A j \in OpsOn("insertBefore", el) :
                  /\ log[j].b = comps[vels[kids[2]].comp].el
                  /\ log[j].c = comps[vels[kids[3]].comp].el
           /\ OpsOn("removeChild", el) = {}
           /\ OpsOn("replaceChild", el) = {}
           /\ OpsOn("appendChild", el) = {}
           /\ NoneOf({"dispose"})

\* C9 witness: the insert scenario has been carried out on a tree that kept A, B, C
C9_Witness ==
    /\ InsertScenario
    /\ LogHas("insertBefore")
    /\ \A r \in {"a", "b", "c"} :
          /\ MapGet(pre.comps[RootComp].refs, r) # 0
          /\ MapGet(comps[RootComp].refs, r) = MapGet(pre.comps[RootComp].refs, r)
    /\ Len(nodes[comps[RootComp].el].children) = 4

\* C10: after a pass entry point has returned or thrown, no descriptor or instance
\* carries a tag or an old-props/old-state snapshot of that pass, and the tags that
\* exist while a pass runs are all tags of that pass
C10_NoTagsSurvive ==
    /\ phase = "idle" => DOMAIN info = {}
    /\ \A k \in DOMAIN info : k[1] = pass

\* C10 witness: a pass that had tagged instances and descriptors has thrown, another
\* pass has returned before it, and nothing is tagged any more
C10_Witness ==
    /\ phase = "idle"
    /\ err # NoErr
    /\ pre.ok
    /\ pass >= 2
    /\ \E o \in Range(polluted) : o[1] = "comp"
    /\ \E o \in Range(polluted) : o[1] = "vel"
    /\ DOMAIN info = {}

\* log entry j is a call of a render routine that returned no descriptor of an
\* element or a component (the props and the state of an instance do not change
\* between its render call and the end of the pass)
BadRender(j) ==
    /\ log[j].op = "render"
    /\ RenderOf(comps[log[j].a].cls, comps[log[j].a].props, comps[log[j].a].state).type
           \notin {"elem", "comp"}

RenderErrors == {"EmptyRenderResult", "InvalidRenderResult"}

\* C11: when a render routine called during capture returns a falsy value or
\* something that is neither an element nor a component descriptor, the pass raises
\* the matching error, the call is the last thing the pass does on its collaborators
\* (no further render routine runs) and the update phase is never entered
C11_BadRenderAborts ==
    \A j \in 1..Len(log) :
        BadRender(j) =>
            /\ err = (IF RenderOf(comps[log[j].a].cls, comps[log[j].a].props,
                                  comps[log[j].a].state).type = "nil"
                      THEN "EmptyRenderResult" ELSE "InvalidRenderResult")
            /\ j = Len(log)
            /\ phase \in {"failed", "idle"}
            /\ NoneOf(StructureOps \cup ContentOps \cup ListenerOps \cup NotificationOps)

\* C11 witness: a nested component returned nothing while siblings were still to be
\* captured, in a pass that followed a completed one
C11_Witness ==
    /\ phase = "failed"
    /\ err = "EmptyRenderResult"
    /\ pre.ok /\ pass >= 2
    /\ \E j \in 1..Len(log) : BadRender(j) /\ log[j].a # RootComp
    /\ \E v \in 1..Len(vels) : vels[v].type = "comp" /\ ~Is(World, "CAPTURED", V(v))
                               /\ vels[v].cls = "Foo"

\* C11 witness: the root itself returned a text descriptor
C11_WitnessText ==
    /\ phase = "failed"
    /\ err = "InvalidRenderResult"
    /\ \E j \in 1..Len(log) : BadRender(j) /\ log[j].a = RootComp

\* the capture phase of the running pass has returned normally (no adoption)
AfterCapture ==
    /\ phase \in {"captured", "updated", "finishing"}
    /\ entry \in {"render", "renderChild"}
    /\ err = NoErr

\* the instance the parent descriptor of v stands for
NewParentOf(v) == vels[vels[v].parent].comp

\* referenced component descriptors linked to an instance that had an attached node
\* before the pass and whose parent descriptor is not linked to the instance's parent
Relocatees ==
    {v \in 1..Len(vels) :
        /\ vels[v].type = "comp"
        /\ vels[v].ref # Nil
        /\ vels[v].parent # 0
        /\ vels[v].comp \in DOMAIN pre.comps
        /\ Is(World, "LINKED", V(v))
        /\ pre.comps[vels[v].comp].el # 0
        /\ pre.nodes[pre.comps[vels[v].comp].el].parent # 0
        /\ NewParentOf(v) # pre.comps[vels[v].comp].parent}

\* the node of the instance of v was taken out of its old parent node by a removeChild
\* call made before any child was attached to that parent node
StrippedBeforeMerge(v) ==
    LET n == pre.comps[vels[v].comp].el
        p == pre.nodes[n].parent
    IN \E j \in 1..Len(log) :
          /\ log[j].op = "removeChild" /\ log[j].a = p /\ log[j].b = n
          /\ \A i \in 1..(j - 1) : ~(log[i].op \in AttachOps /\ log[i].a = p)

\* the instance was told that it is mounted although it was mounted before the pass:
\* the dispose of an enclosing node has reached it in between
Remounted(d) ==
    /\ d \in DOMAIN pre.comps
    /\ pre.comps[d].mounted
    /\ \E j \in 1..Len(log) : log[j].op = "didMount" /\ log[j].a = d

C12_Tagged ==
    AfterCapture => \A v \in Relocatees :
        Is(World, "RELOCATED", V(v)) /\ Is(World, "RELOCATED", C(vels[v].comp))

C12_Carried ==
    AfterUpdate => \A v \in Relocatees :
        /\ comps[vels[v].comp].el = pre.comps[vels[v].comp].el
        /\ nodes[comps[vels[v].comp].el].parent = comps[NewParentOf(v)].el
        /\ comps[vels[v].comp].parent = NewParentOf(v)

C12_Stripped ==
    AfterUpdate => \A v \in Relocatees : StrippedBeforeMerge(v)

C12_NotDisposed ==
    AfterUpdate => \A v \in Relocatees :
        DisposeCount(vels[v].comp) = 0 /\ ~Remounted(vels[v].comp)

\* relocated descriptors whose old parent node is itself synchronised in the pass
RelocateesOfKeptParent ==
    {v \in Relocatees :
        LET p == pre.nodes[pre.comps[vels[v].comp].el].parent
        IN pre.nodes[p].comp # 0 /\ Is(World, "RENDERED", C(pre.nodes[p].comp))}

C12_StrippedOfKeptParent ==
    AfterUpdate => \A v \in RelocateesOfKeptParent :
        /\ StrippedBeforeMerge(v)
        /\ DisposeCount(vels[v].comp) = 0
        /\ ~Remounted(vels[v].comp)

\* C12: a referenced component descriptor linked to an existing instance but declared
\* under another parent than before is tagged relocated together with its instance;
\* the node of the instance is removed from its old parent node, without a dispose
\* notification, before children are merged into that parent; after the pass the same
\* node is a child of the new parent's node and the parent link names the new parent
C12_RelocationDetection ==
    C12_Tagged /\ C12_Carried /\ C12_Stripped /\ C12_NotDisposed

C12_WitnessKept == AfterUpdate /\ RelocateesOfKeptParent # {} /\ pre.comps[RootComp].mounted

\* the capture phase of a full pass (normal or adopting) has returned normally
AfterFullCapture ==
    /\ phase \in {"captured", "updated", "finishing"}
    /\ entry \in {"render", "adopt"}
    /\ err = NoErr

\* component descriptors captured in a mode other than the top-level one
NonRootCaptured ==
    {v \in 1..Len(vels) : /\ vels[v].type = "comp"
                          /\ vels[v].comp # 0
                          /\ Is(World, "CAPTURED", V(v))
                          /\ ~(entry \in {"render", "adopt"} /\ v = rootVel)}

\* the instance had a concrete node when the pass started
HadNode(d) == d \in DOMAIN pre.comps /\ pre.comps[d].el # 0

\* what _capture decides for descriptor v: no node yet, or shouldRerender says yes
NeedsRerender(v) ==
    \/ ~HadNode(vels[v].comp)
    \/ ShouldRerender(vels[v].cls, pre.comps[vels[v].comp].props, vels[v].props)

MutationOps == StructureOps \cup ContentOps \cup ListenerOps

\* no call of the pass changed a node that was inside the subtree of node n
SubtreeUntouched(n) ==
    \A j \in 1..Len(log) :
        log[j].op \in MutationOps => log[j].a \notin SubtreeNodes(pre.nodes, n)

SameRefMaps(d) ==
    /\ comps[d].refs = pre.comps[d].refs
    /\ comps[d].foreignRefs = pre.comps[d].foreignRefs
    /\ comps[d].internalRefs = pre.comps[d].internalRefs

C13_RootRerendered == AfterFullCapture => Rerendered(RootComp)

C13_RenderIff ==
    AfterCapture \/ AfterFullCapture =>
        \A v \in NonRootCaptured :
            /\ Rerendered(vels[v].comp) <=> NeedsRerender(v)
            /\ Is(World, "SKIPPED", V(v)) <=> ~NeedsRerender(v)

C13_SkippedUntouched ==
    AfterUpdate =>
        \A v \in NonRootCaptured :
            Is(World, "SKIPPED", V(v)) =>
                /\ SubtreeUntouched(pre.comps[vels[v].comp].el)
                /\ SameRefMaps(vels[v].comp)
                /\ comps[vels[v].comp].el = pre.comps[vels[v].comp].el

\* C13: the root of a full pass is always re-rendered; the render routine of a
\* non-root component descriptor is called exactly when its instance has no node yet
\* or shouldRerender returns true for the incoming props; otherwise the descriptor is
\* tagged skipped, and the update phase changes nothing inside the subtree of its
\* node and leaves its recorded reference maps as they were
C13_RerenderDecision == C13_RootRerendered /\ C13_RenderIff /\ C13_SkippedUntouched

\* C13 witness: two passes on a mounted root, the first of which changed the props of
\* a component that declines equal props; the running one has skipped it and finished
\* its update phase
C13_Witness ==
    /\ AfterUpdate
    /\ entry = "render"
    /\ pre.comps[RootComp].mounted
    /\ \E v \in NonRootCaptured :
          /\ Is(World, "SKIPPED", V(v))
          /\ ~Rerendered(vels[v].comp)
          /\ pre.comps[vels[v].comp].props = 2
          /\ Len(nodes[pre.comps[vels[v].comp].el].children) = 1

\* the pairs (descriptor, prior instance or 0) that reference linking has been
\* applied to in the running pass
LinkCandidates ==
    UNION {Range(vels[v].entries) : v \in {u \in 1..Len(vels) : vels[u].hasEntries}}

Linkable(e) == e.comp # 0 /\ IsOfSameType(World, e.comp, e.vc)

LinkedTo(e) ==
    /\ vels[e.vc].comp = e.comp
    /\ Is(World, "LINKED", V(e.vc))
    /\ Is(World, "LINKED", C(e.comp))
    /\ ~CreatedFor(e.vc)

RejectedAndNew(e) ==
    /\ Is(World, "MAPPED", V(e.vc))
    /\ ~Is(World, "LINKED", V(e.vc))
    /\ e.comp # 0 => Is(World, "MAPPED", C(e.comp)) /\ ~Is(World, "LINKED", C(e.comp))
    /\ vels[e.vc].comp # 0
    /\ vels[e.vc].comp # e.comp
    /\ vels[e.vc].comp \notin DOMAIN pre.comps
    /\ Is(World, "NEW", V(e.vc))
    /\ CreatedFor(e.vc)

\* every descriptor tagged linked has an instance of its own concrete type
LinkedTypesAgree ==
    \A v \in 1..Len(vels) :
        (Is(World, "LINKED", V(v)) /\ vels[v].comp # 0) => IsOfSameType(World, vels[v].comp, v)

C14_WitnessNoPrior ==
    /\ AfterCapture
    /\ \E e, f \in LinkCandidates :
          /\ e.comp = 0 /\ vels[e.vc].ref # Nil /\ RejectedAndNew(e)
          /\ Linkable(f) /\ LinkedTo(f)

\* the root declared div[K ref "c" props 1] in the pass before, which returned
\* normally, and declares div[K ref "c" props 2] in the running pass, whose update
\* notifications have been delivered; K is a counter class
CounterScenario(K) ==
    /\ AfterDidUpdate
    /\ pre.entry = "render"
    /\ pre.ok
    /\ Templates[pre.comps[RootComp].state] = Div(<<Co(K, "c", 1)>>)
    /\ Templates[comps[RootComp].state] = Div(<<Co(K, "c", 2)>>)

\* the Counter instance of the scenario
CounterComp == MapGet(pre.comps[RootComp].refs, "c")

\* calls that changed an attribute, a property or a text inside the node of d
ContentUpdatesIn(d) ==
    {j \in 1..Len(log) : /\ log[j].op \in ContentOps
                         /\ log[j].a \in SubtreeNodes(nodes, comps[d].el)}

DidUpdateCount(d) == Cardinality({j \in 1..Len(log) : log[j].op = "didUpdate" /\ log[j].a = d})

CounterUpdatedInPlace ==
    /\ CounterComp # 0
    /\ MapGet(comps[RootComp].refs, "c") = CounterComp
    /\ Cardinality(ContentUpdatesIn(CounterComp)) = 1
    /\ DidUpdateCount(CounterComp) = 1
    /\ NoneOf({"createElement", "createTextNode"})
    /\ \A j \in 1..Len(log) : log[j].op = "create" => vels[log[j].c].cls # comps[CounterComp].cls
    /\ NoneOf({"dispose"})

\* a counter that shows n in an attribute of its element
C15_AttributeCounter == CounterScenario("CounterAttr") => CounterUpdatedInPlace

\* a counter that shows n as the text of its element
C15_TextCounter == CounterScenario("Counter") => CounterUpdatedInPlace

\* C15: root renders div[Counter ref "c" n=1], then n=2 under the same reference: in
\* the second pass exactly one attribute/property/text update is applied inside
\* Counter's output, Counter gets exactly one update notification, no node is
\* created, no Counter instance is created and no dispose notification fires
C15_EndToEnd == C15_AttributeCounter /\ C15_TextCounter

C15_WitnessAttribute == CounterScenario("CounterAttr") /\ CounterUpdatedInPlace

\* the adoption of existing markup has returned normally
AfterAdopt ==
    /\ phase = "finishing"
    /\ entry = "adopt"
    /\ err = NoErr

\* element and component descriptors that adoption has bound to a node of their own
\* that existed before the pass
AdoptedParents ==
    {v \in 1..Len(vels) : /\ vels[v].type \in {"comp", "elem"}
                          /\ ~vels[v].isForwarding
                          /\ vels[v].comp # 0
                          /\ comps[vels[v].comp].el \in DOMAIN pre.nodes}

\* node n is of the kind descriptor w requires and is the node of w's instance
AdoptedAs(n, w) ==
    /\ nodes[n].kind = (IF vels[w].type = "text" THEN "text" ELSE "elem")
    /\ vels[w].comp # 0
    /\ comps[vels[w].comp].el = n

\* the children of el are nodes that were children of el before, in their old order,
\* followed by nodes created by the pass
KeptThenCreated(el) ==
    LET kids == nodes[el].children
        old == IF el \in DOMAIN pre.nodes THEN pre.nodes[el].children ELSE <<>>
    IN \A i \in 1..Len(kids) :
          \/ kids[i] \notin DOMAIN pre.nodes /\ \A j \in i..Len(kids) : kids[j] \notin DOMAIN pre.nodes
          \/ /\ IndexOf(old, kids[i]) # 0
             /\ \A j \in 1..(i - 1) : IndexOf(old, kids[j]) < IndexOf(old, kids[i])

C16_ChildrenBound ==
    AfterAdopt =>
        \A v \in AdoptedParents :
            LET el == comps[vels[v].comp].el
            IN /\ Len(nodes[el].children) = Len(vels[v].children)
               /\ \A i \in 1..Len(vels[v].children) :
                      AdoptedAs(nodes[el].children[i], GetForwardedEl(World, vels[v].children[i]))
               /\ KeptThenCreated(el)

\* the node handed to adoption is not an element
RootNodeNotElement ==
    /\ entry = "adopt"
    /\ pre.nodes[pre.comps[RootComp].el].kind # "elem"

C16_NonElementRejected ==
    (RootNodeNotElement /\ phase # "captured") =>
        /\ err \in {"IncompatibleElement"} \cup RenderErrors
        /\ NoneOf(MutationOps)

C16_WitnessRejected ==
    RootNodeNotElement /\ phase = "failed" /\ err = "IncompatibleElement"

\* where the sentence says a key of the property bag goes
ExpectedPlaces(key, type) ==
    IF key = KeyClassName THEN {"class"}
    ELSE IF key = KeyStyle THEN {"style"}
    ELSE IF key = KeyRef THEN {"ref"}
    ELSE IF key \in {KeyOnClick, KeyOnce} THEN {"listener"}
    ELSE IF type.isString
    THEN IF key \in {KeyType, KeyValue, KeyChecked, KeySelected} THEN {"attr", "prop"}
         ELSE {"attr"}
    ELSE IF key = KeyId THEN {"attr"} ELSE {"props"}

ExpectedEventName(key) ==
    IF key = KeyOnClick THEN <<"c", "l", "i", "c", "k">> ELSE <<"c", "e">>

\* where the returned descriptor holds value val (under key, where the place is keyed)
ActualPlaces(el, key, val) ==
    {w \in {"class", "style", "ref", "listener", "attr", "prop", "props"} :
        CASE w = "class" -> val \in Range(el.classNames)
          [] w = "style" -> val \in Range(el.styles)
          [] w = "ref" -> el.ref = val
          [] w = "listener" -> \E j \in 1..Len(el.listeners) : el.listeners[j][2] = val
          [] w = "attr" -> key \in DOMAIN el.attrs /\ el.attrs[key] = val
          [] w = "prop" -> key \in DOMAIN el.hprops /\ el.hprops[key] = val
          [] w = "props" -> key \in DOMAIN el.props /\ el.props[key] = val}

\* the listeners of the descriptor are those of the on<Letters> keys, in key order,
\* under the lower-cased event name
ListenerKeys(bag) == SelectSeq(bag, LAMBDA e : e[1] \in {KeyOnClick, KeyOnce})

ListenersAsDeclared(el, bag) ==
    /\ Len(el.listeners) = Len(ListenerKeys(bag))
    /\ \A j \in 1..Len(el.listeners) :
          el.listeners[j] = <<ExpectedEventName(ListenerKeys(bag)[j][1]), ListenerKeys(bag)[j][2]>>

\* nothing is on the descriptor that no key of the bag accounts for
NothingElse(el, bag, type) ==
    LET from(w) == {bag[i][1] : i \in {j \in 1..Len(bag) : w \in ExpectedPlaces(bag[j][1], type)}}
    IN /\ DOMAIN el.attrs \subseteq from("attr")
       /\ DOMAIN el.hprops \subseteq from("prop")
       /\ DOMAIN el.props \subseteq from("props")
       /\ Len(el.classNames) <= 1 /\ Len(el.styles) <= 1
       /\ el.classNames # <<>> => from("class") # {}
       /\ el.styles # <<>> => from("style") # {}
       /\ el.ref # Nil => from("ref") # {}

\* C17: createElement sends every key of the property bag to exactly one place:
\* className to the class list, style to the style map, ref to the reference name
\* (a falsy value of these three leaves the place unset), on<Letters> keys to a
\* listener under the lower-cased event name, any other key to an attribute when the
\* type is a tag name (type/value/checked/selected to an element property as well)
\* and, when the type is a component class, id to an attribute and the rest to the
\* props; the children arguments become the children in order
C17_CreateElementRouting ==
    jsx.status = "returned" =>
        /\ \A i \in 1..Len(jsx.bag) :
              ActualPlaces(jsx.el, jsx.bag[i][1], jsx.bag[i][2])
                  = (IF Truthy(jsx.bag[i][2]) THEN ExpectedPlaces(jsx.bag[i][1], jsx.type)
                     ELSE {})
        /\ ListenersAsDeclared(jsx.el, jsx.bag)
        /\ NothingElse(jsx.el, jsx.bag, jsx.type)
        /\ jsx.el.type = jsx.type
        /\ jsx.el.children = jsx.kids

\* C17 witness: a tag with an event handler key and a reflected property, and two
\* children
C17_Witness ==
    /\ jsx.status = "returned"
    /\ jsx.type.isString
    /\ jsx.bag = <<<<KeyOnClick, "v1">>, <<KeyValue, "v2">>>>
    /\ jsx.kids = <<"k2", "k1">>
    /\ jsx.el.listeners = <<<<(<<"c", "l", "i", "c", "k">>), "v1">>>>
    /\ jsx.el.hprops = (KeyValue :> "v2")

\* C17 witness: a component class with id and another key
C17_WitnessComponent ==
    /\ jsx.status = "returned"
    /\ ~jsx.type.isString
    /\ jsx.bag = <<<<KeyId, "v1">>, <<KeyType, "v2">>>>
    /\ jsx.el.attrs = (KeyId :> "v1")
    /\ jsx.el.props = (KeyType :> "v2")

\* the descriptors below descriptor v
RECURSIVE VelDescendants(_)
VelDescendants(v) ==
    UNION {{vels[v].children[i]} \cup VelDescendants(vels[v].children[i]) :
              i \in 1..Len(vels[v].children)}

DidUpdateEvents == {j \in 1..Len(log) : log[j].op = "didUpdate"}

\* no call of the update phase follows an update notification
C18_AfterUpdatePhase ==
    \A i \in DidUpdateEvents : \A j \in (i + 1)..Len(log) : j \in DidUpdateEvents

\* a component below another one is told first
C18_PostOrder ==
    AfterDidUpdate =>
        \A i, j \in DidUpdateEvents :
            (\E v \in 1..Len(vels) : /\ vels[v].comp = log[j].a
                                     /\ \E w \in VelDescendants(v) : vels[w].comp = log[i].a)
            => i < j

\* the notification carries what the instance held when the pass started
C18_OldPropsAndState ==
    AfterDidUpdate =>
        \A j \in DidUpdateEvents :
            /\ log[j].a \in DOMAIN pre.comps
            /\ log[j].b = pre.comps[log[j].a].props
            /\ log[j].c = pre.comps[log[j].a].state

\* C18: update notifications are delivered only after the whole update phase (all
\* mutations of the target tree and all mount and dispose notifications); the
\* notification of a component below another one comes first; each notification
\* carries the props and the state the instance held before the pass
C18_UpdateNotificationOrder ==
    C18_AfterUpdatePhase /\ C18_PostOrder /\ C18_OldPropsAndState

\* C18 witness: the root and a component below it were told, after a pass that
\* replaced and disposed a node, and the component had got new props
C18_Witness ==
    /\ AfterDidUpdate
    /\ LogHas("dispose") /\ LogHas("replaceChild")
    /\ \E i, j \in DidUpdateEvents :
          /\ i < j
          /\ log[j].a = RootComp
          /\ log[j].c # comps[RootComp].state
          /\ log[i].a # RootComp
          /\ log[i].b # comps[log[i].a].props

SetPropsCalled(d) == \E j \in 1..Len(log) : log[j].op = "setProps" /\ log[j].a = d

\* _setProps is called on an instance only if its render routine is called in the pass
C19_PropsOnlyWhenRerendered ==
    AfterCapture \/ AfterFullCapture =>
        \A v \in NonRootCaptured : SetPropsCalled(vels[v].comp) => Rerendered(vels[v].comp)

\* a skipped instance keeps the props and the state it had when the pass started
C19_SkippedKeepsProps ==
    AfterCapture \/ AfterFullCapture =>
        \A v \in NonRootCaptured :
            Is(World, "SKIPPED", V(v)) =>
                /\ comps[vels[v].comp].props = pre.comps[vels[v].comp].props
                /\ comps[vels[v].comp].state = pre.comps[vels[v].comp].state

\* C19: new props are applied to an instance, and its props-received hook fires, only
\* when the component is re-rendered in the pass; an instance whose re-render is
\* skipped keeps its props and state
C19_PropsAppliedOnlyOnRerender == C19_PropsOnlyWhenRerendered /\ C19_SkippedKeepsProps

\* the state of a skipped instance, on its own, is left alone
C19_SkippedKeepsState ==
    AfterCapture \/ AfterFullCapture =>
        \A v \in NonRootCaptured :
            Is(World, "SKIPPED", V(v)) =>
                comps[vels[v].comp].state = pre.comps[vels[v].comp].state

\* a skipped instance has been given props that differ from the ones it held
C19_SkippedGotNewProps ==
    /\ AfterFullCapture
    /\ \E v \in NonRootCaptured :
          /\ Is(World, "SKIPPED", V(v))
          /\ SetPropsCalled(vels[v].comp)
          /\ comps[vels[v].comp].props # pre.comps[vels[v].comp].props
          /\ comps[vels[v].comp].props = vels[v].props

\* descriptors whose instance had a node when the pass started and whose node the
\* update phase has synchronised in place (lines 764-771)
SyncedInPlace ==
    {v \in 1..Len(vels) : /\ vels[v].type \in {"elem", "comp"}
                          /\ vels[v].comp # 0
                          /\ Is(World, "CAPTURED", V(v))
                          /\ ~Is(World, "SKIPPED", V(v))
                          /\ ~vels[v].isForwarding
                          /\ HadNode(vels[v].comp)
                          /\ comps[vels[v].comp].el = pre.comps[vels[v].comp].el}

CallsOn(ops, n, key) ==
    {j \in 1..Len(log) : log[j].op \in ops /\ log[j].a = n /\ log[j].x = key}

\* the key-diff of one hash: old is the node's hash when the pass started, new the
\* descriptor's, setOp and removeOp the calls that change it
KeyDiff(n, old, new, setOp, removeOp) ==
    /\ \A k \in DOMAIN new :
          IF k \in DOMAIN old /\ old[k] = new[k]
          THEN CallsOn({setOp, removeOp}, n, k) = {}
          ELSE Cardinality(CallsOn({setOp}, n, k)) = 1 /\ CallsOn({removeOp}, n, k) = {}
    /\ \A k \in DOMAIN old \ DOMAIN new :
          Cardinality(CallsOn({removeOp}, n, k)) = 1 /\ CallsOn({setOp}, n, k) = {}

NodeSyncedWith(v) == pre.comps[vels[v].comp].el

C20_Attributes ==
    AfterUpdate =>
        \A v \in SyncedInPlace :
            /\ KeyDiff(NodeSyncedWith(v), pre.nodes[NodeSyncedWith(v)].attrs, vels[v].attrs,
                       "setAttribute", "removeAttribute")
            /\ nodes[NodeSyncedWith(v)].attrs = vels[v].attrs

C20_Properties ==
    AfterUpdate =>
        \A v \in SyncedInPlace :
            /\ KeyDiff(NodeSyncedWith(v), pre.nodes[NodeSyncedWith(v)].props, vels[v].hprops,
                       "setProperty", "removeProperty")
            /\ nodes[NodeSyncedWith(v)].props = vels[v].hprops

\* a listener the node had and the descriptor declares again causes no call; a new
\* one is added once; calls that remove are made only if a listener has to go
C20_Listeners ==
    AfterUpdate =>
        \A v \in SyncedInPlace :
            LET n == NodeSyncedWith(v)
                old == Range(pre.nodes[n].listeners)
                new == Range(vels[v].listeners)
            IN /\ \A k \in new :
                      Cardinality(CallsOn({"addEventListener"}, n, k))
                          = IF k \in old THEN 0 ELSE 1
               /\ old \subseteq new =>
                      \A j \in 1..Len(log) :
                          ~(log[j].op = "removeAllEventListeners" /\ log[j].a = n)
               /\ Range(nodes[n].listeners) = new

\* C20: when an existing node is synchronised in place with a descriptor, then for
\* attributes, element properties and event listeners alike an entry of the
\* descriptor whose value differs from the node's is set exactly once, an entry with
\* the same value causes no mutation call, and an entry only the node has is
\* removed; afterwards the node's attributes and properties equal the descriptor's
C20_KeyDiffSync == C20_Attributes /\ C20_Properties /\ C20_Listeners

\* the listeners of the node are the declared ones afterwards, whatever the calls
C20_ListenersEqualAfterwards ==
    AfterUpdate =>
        \A v \in SyncedInPlace :
            nodes[NodeSyncedWith(v)].listeners = vels[v].listeners

\* a node that keeps its one listener has had it removed and added again
C20_SameListenerReadded ==
    /\ AfterUpdate
    /\ \E v \in SyncedInPlace :
          /\ "click" \in Range(pre.nodes[NodeSyncedWith(v)].listeners)
          /\ vels[v].listeners = pre.nodes[NodeSyncedWith(v)].listeners
          /\ CallsOn({"addEventListener"}, NodeSyncedWith(v), "click") # {}
          /\ vels[v].hprops # EmptyMap

\* attributes and properties of a node were set, kept and removed in one pass
C20_WitnessHashes ==
    /\ AfterUpdate
    /\ \E v \in SyncedInPlace :
          LET n == NodeSyncedWith(v)
          IN /\ CallsOn({"setAttribute"}, n, "id") # {}
             /\ CallsOn({"removeAttribute"}, n, "class") # {}
             /\ "type" \in DOMAIN pre.nodes[n].attrs
             /\ CallsOn({"setProperty"}, n, "value") # {}
             /\ CallsOn({"removeProperty"}, n, "selected") # {}
             /\ "checked" \in DOMAIN pre.nodes[n].props

\* descriptors linked on the fly by the child-list merge (lines 846-856): they are
\* tagged linked without a linking attempt of the capture phase having mapped them
LinkedOnTheFly ==
    {v \in 1..Len(vels) : /\ vels[v].comp # 0
                          /\ vels[v].comp \in DOMAIN pre.comps
                          /\ vels[v].type # "comp"
                          /\ Is(World, "LINKED", V(v))
                          /\ ~Is(World, "MAPPED", V(v))}

\* a descriptor below v carries a reference or is a component
VelHasRefDescendant(v) ==
    \E w \in VelDescendants(v) : vels[w].type = "comp" \/ vels[w].ref # Nil

\* when the pass started, a node below the node of instance d belonged to a component
\* or to an instance carrying a reference
CompHadRefDescendant(d) ==
    \E n \in SubtreeNodes(pre.nodes, pre.comps[d].el) \ {pre.comps[d].el} :
        /\ pre.nodes[n].comp # 0
        /\ pre.nodes[n].comp \in DOMAIN pre.comps
        /\ \/ pre.comps[pre.nodes[n].comp].kind = "comp"
           \/ pre.comps[pre.nodes[n].comp].ref # Nil

C21_SameTagElements ==
    AfterUpdate =>
        \A v \in LinkedOnTheFly :
            /\ vels[v].type = "elem"
            /\ pre.comps[vels[v].comp].kind = "elem"
            /\ pre.nodes[pre.comps[vels[v].comp].el].tag = vels[v].tag

C21_NoRefDescendant ==
    AfterUpdate =>
        \A v \in LinkedOnTheFly :
            ~VelHasRefDescendant(v) /\ ~CompHadRefDescendant(vels[v].comp)

\* C21: the child-list merge links on the fly only an old element instance and a new
\* element descriptor of the same tag name, neither of which has a descendant that
\* carries a reference or is a component
C21_OpportunisticLinking == C21_SameTagElements /\ C21_NoRefDescendant

\* C21 witness: an element without references below it was linked on the fly to the
\* element instance that held the same place
C21_Witness ==
    /\ AfterUpdate
    /\ \E v \in LinkedOnTheFly :
          /\ ~VelHasRefDescendant(v) /\ ~CompHadRefDescendant(vels[v].comp)
          /\ comps[vels[v].comp].el = pre.comps[vels[v].comp].el

\* an element was linked on the fly although a referenced component is below it on
\* both sides
C21_LinkedDespiteRefs ==
    /\ AfterUpdate
    /\ \E v \in LinkedOnTheFly :
          VelHasRefDescendant(v) /\ CompHadRefDescendant(vels[v].comp)

\* instances the child-list merge has tagged detached in this pass
Detached == {d \in DOMAIN comps : Is(World, "DETACHED", C(d))}

\* the descriptors of this pass that hold instance d
DescriptorsOf(d) == {w \in 1..Len(vels) : vels[w].comp = d}

RemovalsOf(n) == {j \in 1..Len(log) : log[j].op = "removeChild" /\ log[j].b = n}
AttachmentsOf(n) ==
    {j \in 1..Len(log) : log[j].op \in {"appendChild", "insertBefore"} /\ log[j].b = n}

\* node n is the i-th child of the node of the instance of descriptor p
PlacedAt(n, p, i) ==
    /\ vels[p].comp # 0
    /\ comps[vels[p].comp].el # 0
    /\ Len(nodes[comps[vels[p].comp].el].children) >= i
    /\ nodes[comps[vels[p].comp].el].children[i] = n

\* a detached instance was linked, and an old child of the parent it is declared under
C22_DetachedWereLinkedChildren ==
    AfterUpdate =>
        \A d \in Detached :
            /\ d \in DOMAIN pre.comps /\ pre.comps[d].el # 0
            /\ Is(World, "LINKED", C(d))
            /\ \E w \in DescriptorsOf(d) : Is(World, "LINKED", V(w))

\* its node was removed once, and neither dispose nor didMount was called on it
C22_RemovedSilently ==
    AfterUpdate =>
        \A d \in Detached :
            /\ Cardinality(RemovalsOf(pre.comps[d].el)) = 1
            /\ \A j \in 1..Len(log) :
                  log[j].op \in {"dispose", "didMount"} => log[j].a # d

\* by the end of the merge the node is attached again, after its removal, under the
\* parent it had, at the place of its descriptor
C22_AttachedAgain ==
    AfterUpdate =>
        \A d \in Detached :
            /\ comps[d].el = pre.comps[d].el
            /\ nodes[comps[d].el].parent = pre.nodes[comps[d].el].parent
            /\ \E j \in AttachmentsOf(comps[d].el) :
                  /\ log[j].a = nodes[comps[d].el].parent
                  /\ \A i \in RemovalsOf(comps[d].el) : i < j
            /\ \E w \in DescriptorsOf(d) :
                  /\ vels[w].parent # 0
                  /\ \E i \in 1..Len(vels[vels[w].parent].children) :
                        /\ vels[vels[w].parent].children[i] = w
                        /\ PlacedAt(comps[d].el, vels[w].parent, i)

\* C22: an old child that is linked but meets a different linked new child at the
\* cursor is tagged detached and its node removed without a dispose notification;
\* by the end of the same merge its node is attached again under the same parent at
\* its new position, without a mount notification
C22_DetachAndRetry ==
    C22_DetachedWereLinkedChildren /\ C22_RemovedSilently /\ C22_AttachedAgain

\* C22 witness: under a mounted root, a referenced child that changed places was
\* detached and attached again, while another child was removed and disposed
C22_Witness ==
    /\ AfterUpdate
    /\ comps[RootComp].mounted
    /\ LogHas("dispose")
    /\ \E d \in Detached :
          /\ comps[d].mounted
          /\ AttachmentsOf(comps[d].el) # {}
          /\ RemovalsOf(comps[d].el) # {}

\* the world when the pass started, as far as the old child list is concerned
PreWorld == [comps |-> pre.comps, nodes |-> pre.nodes]

\* linked by the capture phase (reference linking or propagation), as opposed to
\* linked on the fly
CaptureLinked(obj) == Is(World, "LINKED", obj) /\ Is(World, "MAPPED", obj)

\* processed parents whose node existed when the pass started
KeptParents ==
    {p \in ProcessedParents : /\ HadNode(vels[p].comp)
                              /\ comps[vels[p].comp].el = pre.comps[vels[p].comp].el}

OldChildNodes(p) == pre.nodes[pre.comps[vels[p].comp].el].children

\* the instance standing for old child node n of parent descriptor p
OldInstance(p, n) == OldChildOf(PreWorld, vels[p].comp, n)

\* parents none of whose old or new children was linked by the capture phase: the
\* two cursors of the merge advance together, pairing old and new child by index
PlainParents ==
    {p \in KeptParents :
        /\ \A i \in 1..Len(OldChildNodes(p)) :
              /\ OldInstance(p, OldChildNodes(p)[i]) # 0
              /\ ~Is(World, "LINKED", C(OldInstance(p, OldChildNodes(p)[i])))
                    \/ ~Is(World, "MAPPED", C(OldInstance(p, OldChildNodes(p)[i])))
              /\ ~Is(World, "RELOCATED", C(OldInstance(p, OldChildNodes(p)[i])))
        /\ \A i \in 1..Len(vels[p].children) :
              /\ ~CaptureLinked(V(vels[p].children[i]))
              /\ vels[vels[p].children[i]].comp # 0 =>
                    ~Is(World, "RELOCATED", C(vels[vels[p].children[i]].comp))}

\* the pair is left alone: an equal text node, or an element linked on the fly
PairReused(p, n, w) ==
    \/ /\ pre.nodes[n].kind = "text" /\ vels[w].type = "text"
       /\ pre.nodes[n].text = vels[w].text
    \/ w \in LinkedOnTheFly /\ vels[w].comp = OldInstance(p, n)

CountOf(op, d) == Cardinality({j \in 1..Len(log) : log[j].op = op /\ log[j].a = d})

ParentStaysMounted(p) == pre.comps[vels[p].comp].mounted /\ comps[vels[p].comp].mounted
ParentStaysUnmounted(p) == ~pre.comps[vels[p].comp].mounted /\ ~comps[vels[p].comp].mounted

\* one replaceChild on the parent node for the pair, dispose for the old instance,
\* didMount for the new one if the parent is mounted
ReplacedWholesale(p, n, w) ==
    /\ vels[w].comp # 0
    /\ Cardinality({j \in 1..Len(log) : /\ log[j].op = "replaceChild"
                                        /\ log[j].a = comps[vels[p].comp].el
                                        /\ log[j].b = n}) = 1
    /\ \E j \in 1..Len(log) - 1 :
          /\ log[j].op = "replaceChild"
          /\ log[j].a = comps[vels[p].comp].el
          /\ log[j].b = n
          /\ log[j].c = comps[vels[w].comp].el
          /\ log[j + 1].op = "dispose" /\ log[j + 1].a = OldInstance(p, n)
    /\ RemovalsOf(n) = {} /\ AttachmentsOf(comps[vels[w].comp].el) = {}
    /\ CountOf("dispose", OldInstance(p, n)) = 1
    /\ ParentStaysMounted(p) => CountOf("didMount", vels[w].comp) = 1
    /\ ParentStaysUnmounted(p) => CountOf("didMount", vels[w].comp) = 0

C23_UnlinkedPairReplaced ==
    AfterUpdate =>
        \A p \in PlainParents :
            \A i \in 1..Len(OldChildNodes(p)) :
                i <= Len(vels[p].children) =>
                    \/ PairReused(p, OldChildNodes(p)[i], vels[p].children[i])
                    \/ ReplacedWholesale(p, OldChildNodes(p)[i], vels[p].children[i])

\* old children that could not be linked and are gone from the parent node
UnlinkedGone(p) ==
    {n \in Range(OldChildNodes(p)) :
        /\ OldInstance(p, n) # 0
        /\ ~Is(World, "LINKED", C(OldInstance(p, n)))
        /\ ~Is(World, "RELOCATED", C(OldInstance(p, n)))
        /\ nodes[n].parent # comps[vels[p].comp].el}

\* new children linked by the capture phase to an old child of the same parent that
\* was neither detached nor relocated
LinkedInPlace(p) ==
    {w \in Range(vels[p].children) :
        /\ CaptureLinked(V(w))
        /\ vels[w].comp # 0
        /\ \E n \in Range(OldChildNodes(p)) : OldInstance(p, n) = vels[w].comp
        /\ ~Is(World, "DETACHED", C(vels[w].comp))
        /\ ~Is(World, "RELOCATED", C(vels[w].comp))}

\* an old child that could not be linked is removed once, with dispose, and the linked
\* new child that met it is matched with its own node further on: that node is
\* neither removed nor attached
C23_UnlinkedOldRemoved ==
    AfterUpdate =>
        \A p \in KeptParents :
            /\ \A n \in UnlinkedGone(p) :
                  /\ Cardinality({j \in 1..Len(log) :
                                     /\ log[j].op \in {"removeChild", "replaceChild"}
                                     /\ log[j].a = comps[vels[p].comp].el
                                     /\ log[j].b = n}) = 1
                  /\ CountOf("dispose", OldInstance(p, n)) = 1
            /\ \A w \in LinkedInPlace(p) :
                  /\ RemovalsOf(comps[vels[w].comp].el) = {}
                  /\ AttachmentsOf(comps[vels[w].comp].el) = {}
                  /\ CountOf("dispose", vels[w].comp) = 0

\* C23: when neither the old child at the cursor nor the new child is linked and they
\* are not linked on the fly, exactly one replaceChild is made on the parent node, the
\* old instance gets dispose and the new one didMount if the parent is mounted; when
\* the new child is linked and the old one is not, the old one is removed with
\* dispose and the new child is retried against the next surviving old child
C23_DifferentialUpdate == C23_UnlinkedPairReplaced /\ C23_UnlinkedOldRemoved

\* C23 witness: under a mounted parent an unlinked old child met an unlinked new child
\* of another kind and was replaced
C23_Witness ==
    /\ AfterUpdate
    /\ \E p \in PlainParents :
          /\ ParentStaysMounted(p)
          /\ \E i \in 1..Len(OldChildNodes(p)) :
                /\ i <= Len(vels[p].children)
                /\ ~PairReused(p, OldChildNodes(p)[i], vels[p].children[i])
                /\ ReplacedWholesale(p, OldChildNodes(p)[i], vels[p].children[i])
                /\ CountOf("didMount", vels[vels[p].children[i]].comp) = 1

\* C23 witness for the second half: an unlinked old child was removed with dispose
\* ahead of a linked new child that kept its node
C23_WitnessRemoved ==
    /\ AfterUpdate
    /\ \E p \in KeptParents :
          /\ \E n \in UnlinkedGone(p) :
                /\ RemovalsOf(n) # {}
                /\ \E i, k \in 1..Len(OldChildNodes(p)) :
                      /\ i < k
                      /\ OldChildNodes(p)[i] = n
                      /\ \E w \in LinkedInPlace(p) :
                            comps[vels[w].comp].el = OldChildNodes(p)[k]

\* the tag names of the element descriptors enclosing p, up to the descriptor root
RECURSIVE TagsAbove(_, _)
TagsAbove(p, root) ==
    IF p = 0 \/ p = root \/ vels[p].type = "fake" THEN <<>>
    ELSE Append(TagsAbove(vels[p].parent, root), vels[p].tag)

\* chain of enclosing element tag names followed by the component class name
TraceOf(w, root) == Append(TagsAbove(vels[w].parent, root), vels[w].cls)

\* the unreferenced component descriptors of rendering context x, by position
Unreferenced(x) ==
    {i \in 1..Len(ctxs[x].components) : vels[ctxs[x].components[i]].ref = Nil}

\* the bare trace for its first occurrence, the trace with its rank k for the k-th
PositionalKey(x, i) ==
    <<TraceOf(ctxs[x].components[i], ctxs[x].owner),
      1 + Cardinality({j \in Unreferenced(x) :
                          /\ j < i
                          /\ TraceOf(ctxs[x].components[j], ctxs[x].owner)
                               = TraceOf(ctxs[x].components[i], ctxs[x].owner)})>>

RECURSIVE Joined(_)
Joined(frags) ==
    IF Len(frags) = 1 THEN frags[1]
    ELSE Joined(SubSeq(frags, 1, Len(frags) - 1)) \o "/" \o frags[Len(frags)]

\* the key as the string the engine stores: frags.join('/'), then '@' and the count
KeyString(key) ==
    IF key[2] = 1 THEN Joined(key[1]) ELSE Joined(key[1]) \o "@" \o ToString(key[2])

ContextsWithKeys == {x \in 1..Len(ctxs) : ctxs[x].hasInternalRefs}

C24_KeysAsDerived ==
    \A x \in ContextsWithKeys :
        /\ Len(ctxs[x].internalRefs) = Cardinality(Unreferenced(x))
        /\ \A i \in Unreferenced(x) :
              \E e \in 1..Len(ctxs[x].internalRefs) :
                  /\ ctxs[x].internalRefs[e][1] = PositionalKey(x, i)
                  /\ ctxs[x].internalRefs[e][2] = ctxs[x].components[i]

C24_KeysDistinct ==
    \A x \in ContextsWithKeys :
        \A e, f \in 1..Len(ctxs[x].internalRefs) :
            e # f => KeyString(ctxs[x].internalRefs[e][1]) # KeyString(ctxs[x].internalRefs[f][1])

\* the instance of context x's owner recorded, in the previous pass, the same keys for
\* instances of the same classes
SameStructure(x) ==
    LET c == vels[ctxs[x].owner].comp
    IN /\ pre.ok
       /\ c # 0 /\ c \in DOMAIN pre.comps /\ pre.comps[c].hasData
       /\ {ctxs[x].internalRefs[e][1] : e \in 1..Len(ctxs[x].internalRefs)}
            = {pre.comps[c].internalRefs[e][1] : e \in 1..Len(pre.comps[c].internalRefs)}
       /\ \A e \in 1..Len(ctxs[x].internalRefs) :
             LET d == MapGet(pre.comps[c].internalRefs, ctxs[x].internalRefs[e][1])
             IN d # 0 /\ pre.comps[d].cls = vels[ctxs[x].internalRefs[e][2]].cls

C24_SameKeySameInstance ==
    AfterFullCapture =>
        \A x \in ContextsWithKeys :
            SameStructure(x) =>
                \A e \in 1..Len(ctxs[x].internalRefs) :
                    vels[ctxs[x].internalRefs[e][2]].comp
                        = MapGet(pre.comps[vels[ctxs[x].owner].comp].internalRefs,
                                 ctxs[x].internalRefs[e][1])

\* C24: the positional keys derived for the unreferenced component descriptors of one
\* render are pairwise distinct and deterministic: the chain of enclosing element tag
\* names followed by the class name, bare for the first occurrence of a trace and with
\* the suffix @k for the k-th; two passes declaring the same structure produce the
\* same keys, and each unreferenced component is linked to the instance that had the
\* same key in the previous pass
C24_PositionalRefs == C24_KeysAsDerived /\ C24_KeysDistinct /\ C24_SameKeySameInstance

\* C24 witness: the second of two passes declaring two components with the same trace
\* and one below an element; all three are linked to their instances again
C24_Witness ==
    /\ AfterFullCapture
    /\ \E x \in ContextsWithKeys :
          /\ SameStructure(x)
          /\ {KeyString(ctxs[x].internalRefs[e][1]) : e \in 1..Len(ctxs[x].internalRefs)}
               = {"Bar", "Bar@2", "span/Bar"}
          /\ \A e \in 1..Len(ctxs[x].internalRefs) :
                /\ vels[ctxs[x].internalRefs[e][2]].comp # 0
                /\ Is(World, "LINKED", V(ctxs[x].internalRefs[e][2]))

RenderEvents == {j \in 1..Len(log) : log[j].op = "render"}

\* what a caller of createElement gets in the current state of the engine
CreateElementNow(type, bag, kids) == CreateElement(World, engineState, type, bag, kids)

\* every state of the pass machine lies outside the render routines: before a pass,
\* between its phases, after it has returned or thrown
C27_ThrowsOutsideRender ==
    \A type \in JsxTypes, kids \in JsxKidLists :
        \A bag \in {<<>>, <<<<KeyClassName, "v1">>>>, <<<<KeyOnClick, "v1">>>>} :
            CreateElementNow(type, bag, kids).status = "thrown"

\* a render routine runs with exactly one context on the stack, the one made for the
\* descriptor of the instance that renders: nothing is active between two calls, and
\* the builder in use is the one of the innermost context
C27_InnermostContext ==
    \A j \in RenderEvents :
        /\ log[j].b = 1
        /\ log[j].c \in 1..Len(ctxs)
        /\ ctxs[log[j].c].owner \in 1..Len(vels)
        /\ err = NoErr => vels[ctxs[log[j].c].owner].comp = log[j].a

\* C27: createElement raises the invalid-state error whenever no render routine of a
\* running pass is executing: before any pass, after _render or _renderChild has
\* returned or thrown, and between two render routine calls of one pass; inside a
\* render routine it uses the builder of the innermost active rendering context
C27_CreateElementOnlyInRender == C27_ThrowsOutsideRender /\ C27_InnermostContext

\* C27 witness: _renderChild has returned and left its disposed state on the engine;
\* the pass called a render routine, and createElement throws
C27_Witness ==
    /\ phase = "idle"
    /\ entry = "renderChild"
    /\ engineState # 0
    /\ RenderEvents # {}
    /\ CreateElementNow([isString |-> TRUE, name |-> "input"], <<>>, <<>>).status = "thrown"

\* C27 witness: a pass has thrown inside its second render routine call
C27_WitnessThrown ==
    /\ phase = "failed"
    /\ Cardinality(RenderEvents) >= 2
    /\ engineState # 0
    /\ CreateElementNow([isString |-> TRUE, name |-> "input"], <<>>, <<>>).status = "thrown"

\* the stack is empty wherever the pass machine stands: after the capture phase, whether
\* it returned or threw, and when the pass has ended
C28_EmptyBetweenPhases == contexts = <<>>

\* each render routine is entered with the stack holding its own context only: the
\* capture of the components before it left the depth as it found it
C28_DepthRestored == \A j \in RenderEvents : log[j].b = 1

C28_WitnessReturned ==
    /\ phase = "captured"
    /\ Cardinality(RenderEvents) >= 4
    /\ contexts = <<>>

\* the descriptors of the pass (the stand-in parent of _renderChild is none)
Descriptors == {v \in 1..Len(vels) : vels[v].type # "fake"}

\* C29: within one pass no instance is attached to two distinct descriptors: once an
\* instance has been linked to a descriptor (by reference linking, by propagation to
\* the ancestors or on the fly), no other descriptor of the pass gets it
C29_OneDescriptorPerInstance ==
    \A v, w \in Descriptors :
        (v # w /\ vels[v].comp # 0) => vels[v].comp # vels[w].comp

\* C29 witness: instances were linked by reference, by propagation and on the fly in
\* one pass
C29_Witness ==
    /\ AfterUpdate
    /\ LinkedOnTheFly # {}
    /\ \E v \in Descriptors : vels[v].type = "comp" /\ CaptureLinked(V(v)) /\ v # rootVel
    /\ \E v \in Descriptors : vels[v].type = "elem" /\ CaptureLinked(V(v))

\* the capture phase of the pass has ended, normally or with a render-contract
\* violation, and no later phase has run
CaptureEnded == phase = "captured" \/ (phase = "failed" /\ err \in RenderErrors)

\* C30: the capture phase performs no mutation of the target tree: no node is created,
\* attached or detached and no attribute, property, listener or text is changed before
\* the update or adoption phase, so when a pass fails with a render-contract violation
\* the concrete tree is what it was before the pass
C30_CaptureLeavesTreeAlone ==
    CaptureEnded => nodes = pre.nodes /\ NoneOf(MutationOps)

\* C30 witness: a pass on an existing tree has linked and re-rendered instances and
\* then failed because a render routine returned nothing
C30_Witness ==
    /\ phase = "failed"
    /\ entry = "render"
    /\ pre.comps[RootComp].el # 0
    /\ err = "EmptyRenderResult"
    /\ comps[RootComp].el # 0
    /\ Cardinality(DOMAIN nodes) >= 4
    /\ Cardinality(RenderEvents) >= 2
    /\ nodes = pre.nodes

\* --------------------------------------------------------------------------
\* C25, C26: a descriptor without an instance in the update phase
\* --------------------------------------------------------------------------
\* the component descriptors of the root's render call that have no instance
UnattachedVels ==
    {w \in Range(ctxs[vels[rootVel].ctx].components) : vels[w].comp = 0}

\* the condition of line 754
EligibleForLateCapture(w) ==
    vels[w].ref # Nil /\ vels[w].prelim # vels[w].owner

\* descriptor w has an instance in world s whose node hangs below the node of the
\* instance of w's parent descriptor
AttachedAndPlaced(s, w) ==
    /\ s.vels[w].comp # 0
    /\ s.comps[s.vels[w].comp].el # 0
    /\ s.vels[s.vels[w].parent].comp # 0
    /\ s.nodes[s.comps[s.vels[w].comp].el].parent
           = s.comps[s.vels[s.vels[w].parent].comp].el

\* nothing of the target tree has been made for descriptor w in world s: no node
\* belongs to an instance of w, and the node of w's parent has no child at w's
\* position or behind it
NothingMadeFor(s, w) ==
    /\ \A x \in DOMAIN s.comps : s.comps[x].el # 0 => x # s.vels[w].comp
    /\ LET p == s.vels[w].parent
           pc == s.vels[p].comp
       IN IF s.vels[p].isForwarding \/ s.comps[pc].el = 0 THEN s.comps[pc].el = 0
          ELSE Len(s.nodes[s.comps[pc].el].children) < IndexOf(s.vels[p].children, w)

C25_CapturedThenFails ==
    [][UpdateStep =>
          \A w \in UnattachedVels :
              EligibleForLateCapture(w) =>
                  /\ vels'[w].comp # 0
                  /\ \E j \in 1..Len(log') :
                         log'[j].op = "render" /\ log'[j].a = vels'[w].comp
                  /\ err' = "TypeError"
                  /\ comps'[vels'[w].comp].el = 0]_vars

\* a pass that has failed after a capture in the middle of the update phase
C25_LateCaptureFailed ==
    /\ phase = "failed"
    /\ err = "TypeError"
    /\ \E w \in Range(ctxs[vels[rootVel].ctx].components) :
          /\ vels[w].ref # Nil
          /\ vels[w].comp # 0
          /\ comps[vels[w].comp].el = 0
          /\ \E i, j \in 1..Len(log) :
                /\ i < j
                /\ log[i].op \in MutationOps
                /\ log[j].op = "render"
                /\ log[j].a = vels[w].comp

UpdateRan ==
    /\ phase \in {"updated", "finishing", "failed"}
    /\ entry \in {"render", "renderChild"}
    /\ \E j \in 1..Len(log) : log[j].op \in MutationOps

\* the forwarded descriptor of v is linked to the instance v's instance forwarded to
\* before the pass
ForwardedKept(v) ==
    /\ vels[v].forwardedEl # 0
    /\ vels[v].comp \in DOMAIN pre.comps
    /\ vels[vels[v].forwardedEl].comp \in DOMAIN pre.comps
    /\ pre.comps[vels[vels[v].forwardedEl].comp].parent = vels[v].comp
    /\ pre.comps[vels[vels[v].forwardedEl].comp].el # 0
    /\ Is(World, "LINKED", V(vels[v].forwardedEl))

\* the forwarded instances are kept all the way down the chain that starts at v
RECURSIVE ChainKept(_)
ChainKept(v) ==
    vels[v].forwardedEl = 0 \/ (ForwardedKept(v) /\ ChainKept(vels[v].forwardedEl))

RECURSIVE ChainLength(_)
ChainLength(v) == IF vels[v].forwardedEl = 0 THEN 0 ELSE 1 + ChainLength(vels[v].forwardedEl)

RECURSIVE ChainBelow(_)
ChainBelow(v) ==
    IF vels[v].forwardedEl = 0 THEN {}
    ELSE {vels[vels[v].forwardedEl].comp} \cup ChainBelow(vels[v].forwardedEl)

\* the descriptors at the head of a forwarding chain that were re-rendered in this
\* pass and kept their forwarded instances
ForwardingKept ==
    {v \in 1..Len(vels) :
        /\ vels[v].type = "comp"
        /\ vels[v].isForwarding
        /\ ~vels[v].isForwarded
        /\ vels[v].comp # 0
        /\ \E j \in 1..Len(log) : log[j].op = "render" /\ log[j].a = vels[v].comp
        /\ ChainKept(v)}

\* the part of C31 that holds: a chain of one forwarding component and its kept
\* forwarded instance
C31_ChainOfOne ==
    UpdateRan =>
        \A v \in ForwardingKept :
            ChainLength(v) = 1 =>
                /\ \A d \in ChainBelow(v) : ~Disposed(d) /\ MountCount(d) = 0
                /\ NoneOf({"replaceChild"})

\* C31: in a pass where a forwarding component is re-rendered and its forwarded
\* descriptor is linked to the same instance as before, no dispose and no mount
\* notification fires for the forwarded instance or any instance further down the
\* forwarding chain, and no replace mutation is performed, for chains of length one
\* and of length two or more
C31_ForwardedKeptQuietly ==
    UpdateRan =>
        \A v \in ForwardingKept :
            /\ \A d \in ChainBelow(v) : ~Disposed(d) /\ MountCount(d) = 0
            /\ NoneOf({"replaceChild"})

\* a forwarding component below the root was re-rendered and kept its forwarded instance
C31_WitnessChainOfOne ==
    /\ UpdateRan
    /\ phase = "finishing"
    /\ \E v \in ForwardingKept : ChainLength(v) = 1 /\ v # rootVel

\* the same for a component that forwards to a forwarding component
C31_WitnessChainOfTwo ==
    /\ UpdateRan
    /\ \E v \in ForwardingKept : ChainLength(v) = 2
\* --------------------------------------------------------------------------
\* C32: what an adoption pass leaves behind for the next pass
\* --------------------------------------------------------------------------
AfterAdoption == phase = "finishing" /\ entry = "adopt" /\ err = NoErr

\* the component descriptors of the pass that have an instance and a render context
CapturedComps ==
    {v \in 1..Len(vels) : vels[v].type = "comp" /\ vels[v].comp # 0 /\ vels[v].ctx # 0}

\* the reference maps of the instance of v are those of v's render context
RefsRecorded(v) ==
    /\ comps[vels[v].comp].refs = ResolveRefs(World, ctxs[vels[v].ctx].refs)
    /\ comps[vels[v].comp].internalRefs = ResolveRefs(World, ctxs[vels[v].ctx].internalRefs)

C32_RecordedAfterAdoption ==
    AfterAdoption =>
        /\ \A v \in CapturedComps : RefsRecorded(v)
        /\ \A n \in SubtreeNodes(nodes, comps[RootComp].el) : nodes[n].comp # 0

\* a normal pass that follows an adoption pass and declares the same tree
SameTreeAfterAdoption ==
    /\ AfterUpdate
    /\ entry = "render"
    /\ pre.entry = "adopt"
    /\ pre.ok
    /\ pre.comps[RootComp].state = comps[RootComp].state

C32_ReusedAfterAdoption ==
    SameTreeAfterAdoption =>
        /\ NoneOf({"removeChild", "replaceChild", "create", "dispose"})
        /\ DOMAIN nodes = DOMAIN pre.nodes
        /\ DOMAIN comps = DOMAIN pre.comps

\* C32: after a pass in adoption mode every captured component instance has its
\* reference maps recorded and every adopted or created node is associated with its
\* instance, so that a following normal pass that declares the same tree reuses the
\* adopted instances and nodes: no node is removed as an orphan and no child
\* instance is created again
C32_AdoptionThenReuse ==
    C32_RecordedAfterAdoption /\ C32_ReusedAfterAdoption

\* an adoption pass over markup of several nodes with a referenced child has ended
C32_WitnessAdopted ==
    /\ AfterAdoption
    /\ \E v \in CapturedComps : ctxs[vels[v].ctx].refs # <<>>
    /\ Cardinality(SubtreeNodes(nodes, comps[RootComp].el)) >= 3

\* the same tree has been rendered after its adoption: the child was created again
C32_WitnessRecreated ==
    /\ SameTreeAfterAdoption
    /\ \E j \in 1..Len(log) : log[j].op = "create" /\ log[j].x = "comp"
    /\ \E j \in 1..Len(log) : log[j].op = "removeChild"
\* --------------------------------------------------------------------------
\* C33: raw inner content in adoption mode
\* --------------------------------------------------------------------------
\* the element descriptors of the pass that carry raw inner content and have a node
RawContentVels ==
    {v \in 1..Len(vels) : /\ vels[v].type = "elem"
                          /\ vels[v].html # Nil
                          /\ vels[v].comp # 0
                          /\ comps[vels[v].comp].el # 0}

NodeOf(v) == comps[vels[v].comp].el

\* the part of C33 that holds: a node created during adoption keeps the content
C33_CreatedKeepsContent ==
    AfterAdoption =>
        \A v \in RawContentVels :
            NodeOf(v) \notin DOMAIN pre.nodes => GetInnerHTML(World, NodeOf(v)) = vels[v].html

\* C33: in adoption mode, when an element descriptor carries raw inner content
\* instead of children, the content of the adopted node after the pass equals that
\* inner content: the child walk does not remove what was set from the descriptor
C33_AdoptedKeepsContent ==
    AfterAdoption =>
        \A v \in RawContentVels :
            NodeOf(v) \in DOMAIN pre.nodes => GetInnerHTML(World, NodeOf(v)) = vels[v].html

\* an existing node has been adopted for a descriptor with raw inner content; the
\* content was set and taken out again
C33_WitnessEmptied ==
    /\ AfterAdoption
    /\ \E v \in RawContentVels :
          /\ NodeOf(v) \in DOMAIN pre.nodes
          /\ nodes[NodeOf(v)].children = <<>>
          /\ \E i, j \in 1..Len(log) :
                /\ i < j
                /\ log[i].op = "setInnerHTML" /\ log[i].a = NodeOf(v)
                /\ log[j].op = "removeChild" /\ log[j].a = NodeOf(v) /\ log[j].b = log[i].b

C33_WitnessCreated ==
    /\ AfterAdoption
    /\ \E v \in RawContentVels :
          NodeOf(v) \notin DOMAIN pre.nodes /\ GetInnerHTML(World, NodeOf(v)) = vels[v].html
\* --------------------------------------------------------------------------
\* C34: the names list and the entries map of a registry
\* --------------------------------------------------------------------------
RegistryReady == registry.status = "ready"

NamesAreKeys ==
    RegistryReady =>
        /\ Range(registry.names) = DOMAIN registry.entries
        /\ \A i, j \in 1..Len(registry.names) :
              i # j => registry.names[i] # registry.names[j]

\* names are ordered by the call in which each was last added successfully
NamesInAddOrder ==
    RegistryReady =>
        \A i, j \in 1..Len(registry.names) :
            i < j => registry.addedAt[registry.names[i]] < registry.addedAt[registry.names[j]]

\* a failed add changes neither the names nor the entries
FailedAddChangesNothing ==
    [][(RegistryReady /\ registry'.last.threw) =>
          /\ registry'.names = registry.names
          /\ registry'.entries = registry.entries]_vars

\* forEach hands the entries to the callback in the order of names and stops at the
\* first name for which the callback returns false
ForEachInOrder ==
    (RegistryReady /\ registry.last.op = "forEach") =>
        LET vis == registry.last.visited
            n == Len(vis)
        IN /\ n <= Len(registry.names)
           /\ \A i \in 1..n : vis[i] = <<registry.entries[registry.names[i]], registry.names[i]>>
           /\ \A i \in 1..(n - 1) : registry.names[i] \notin registry.last.stopAt
           /\ n < Len(registry.names) => registry.names[n] \in registry.last.stopAt

\* C34: after any sequence of add, remove and clear calls, failed add calls included,
\* the names list holds exactly the own keys of the entries map, each once, ordered
\* by the most recent successful add of each name; forEach visits the entries in
\* that order and stops as soon as the callback returns false
C34_RegistryConsistent ==
    NamesAreKeys /\ NamesInAddOrder /\ ForEachInOrder

\* a name was added again after others, a failed add came in between, and forEach was
\* stopped before the end
C34_Witness ==
    /\ RegistryReady
    /\ Len(registry.names) = 2
    /\ registry.addedAt[registry.names[1]] = 2
    /\ registry.addedAt[registry.names[2]] = 3
    /\ registry.last.op = "forEach"
    /\ Len(registry.last.visited) = 1

C34_WitnessFailedAdd ==
    /\ RegistryReady
    /\ registry.last.threw
    /\ registry.last.name = "toString"
    /\ Len(registry.names) = 3
\* --------------------------------------------------------------------------
\* C35: one factory call and one instance per service
\* --------------------------------------------------------------------------
ServicesReady == services.status = "ready"

\* the service objects the callers of getService have received
ReceivedInstances ==
    {x \in {services.received[i] : i \in 1..Len(services.received)} : x.kind = "object"}

FactoryCalledOnce == ServicesReady => services.factoryCalls <= 1

OneInstance == ServicesReady => Cardinality(ReceivedInstances) <= 1

\* the part of C35 that holds: a factory that returns the service itself is called
\* once and every caller receives that service
C35_SynchronousFactory ==
    (ServicesReady /\ ~services.async) => services.factoryCalls <= 1 /\ ReceivedInstances \subseteq {ServiceObject(1)}

\* C35: getService invokes the factory of a registered service at most once over the
\* lifetime of the configuration and every caller receives the same instance, for
\* every interleaving of getService and getServiceSync calls with the resolution of
\* a factory promise, a second call before the first promise has resolved included
C35_FactoryAtMostOnce ==
    FactoryCalledOnce /\ OneInstance

\* two getService calls were made before the first factory promise resolved, and
\* both promises have delivered
C35_WitnessTwoInstances ==
    /\ ServicesReady
    /\ services.async
    /\ services.factoryCalls = 2
    /\ services.received = <<ServiceObject(1), ServiceObject(2)>>
    /\ services.waiting = {}

C35_WitnessSynchronous ==
    /\ ServicesReady
    /\ ~services.async
    /\ services.received = <<ServiceObject(1), ServiceObject(1), ServiceObject(1)>>
\* --------------------------------------------------------------------------
\* C36: the text calls of a run
\* --------------------------------------------------------------------------
StartReturned == fragmenter.status = "done"
StartThrew == fragmenter.status = "threw"
StartEnded == StartReturned \/ StartThrew

TextCalls == SelectSeq(fragmenter.log, LAMBDA e : e.op = "onText")

RECURSIVE Concatenation(_)
Concatenation(calls) ==
    IF calls = <<>> THEN <<>> ELSE calls[1].text \o Concatenation(Tail(calls))

TextInIncreasingOrder ==
    \A i \in 1..Len(TextCalls) : \A j \in 1..Len(TextCalls) :
        i < j => TextCalls[i].from < TextCalls[j].from

\* what holds of every run, also of one that throws: the text calls come in
\* increasing offset order, none is empty, and together they are a prefix of the text
C36_TextIsPrefix ==
    StartEnded =>
        /\ TextInIncreasingOrder
        /\ \A i \in 1..Len(TextCalls) : TextCalls[i].text # <<>>
        /\ Concatenation(TextCalls) = SubSeq(fragmenter.text, 1, Len(Concatenation(TextCalls)))

\* C36: start emits text through onText in strictly increasing offset order and the
\* concatenation of the emitted text equals the input text, for every list of
\* annotations whose offsets lie within the text
C36_TextEmittedInOrder ==
    StartEnded =>
        /\ TextInIncreasingOrder
        /\ Concatenation(TextCalls) = fragmenter.text

\* the same for the runs that return
C36_ReturnedRunsEmitText ==
    StartReturned =>
        /\ TextInIncreasingOrder
        /\ Concatenation(TextCalls) = fragmenter.text

\* a run over three overlapping annotations that ends in the error of line 27 after
\* part of the text was emitted
C36_WitnessThrew ==
    /\ StartThrew
    /\ fragmenter.threw = "infinity loop"
    /\ Len(fragmenter.annotations) = 3
    /\ Concatenation(TextCalls) # fragmenter.text
    /\ Concatenation(TextCalls) # <<>>

\* a run that splits an annotation and returns
C36_WitnessReturned ==
    /\ StartReturned
    /\ Len(fragmenter.objs) > 2 * Len(fragmenter.annotations)
    /\ Len(TextCalls) >= 3
    /\ Concatenation(TextCalls) = fragmenter.text

\* --------------------------------------------------------------------------
\* C37: nesting of the fragments of a run
\* --------------------------------------------------------------------------
Unmatched == <<-1>>

\* the fragments open after the first n calls of the log, innermost last; Unmatched
\* once a fragment was closed that was not the innermost open one
RECURSIVE OpenAfter(_, _)
OpenAfter(calls, n) ==
    IF n = 0 THEN <<>>
    ELSE With(OpenAfter(calls, n - 1), LAMBDA open :
            IF open = Unmatched \/ calls[n].op = "onText" THEN open
            ELSE IF calls[n].op = "onOpen" THEN Append(open, calls[n].fragment)
            ELSE IF open # <<>> /\ open[Len(open)] = calls[n].fragment
            THEN SubSeq(open, 1, Len(open) - 1)
            ELSE Unmatched)

CallsOf(op) == {i \in 1..Len(fragmenter.log) : fragmenter.log[i].op = op}

\* every fragment is opened at most once, and a close is given the context that the
\* open of its fragment returned, and the same parent context
OpenedOnceAndClosedInContext ==
    /\ \A i \in CallsOf("onOpen") : \A j \in CallsOf("onOpen") :
          fragmenter.log[i].fragment = fragmenter.log[j].fragment => i = j
    /\ \A j \in CallsOf("onClose") : \E i \in CallsOf("onOpen") :
          /\ i < j
          /\ fragmenter.log[i].fragment = fragmenter.log[j].fragment
          /\ fragmenter.log[i].context = fragmenter.log[j].context
          /\ fragmenter.log[i].parent = fragmenter.log[j].parent

\* closes match the innermost open fragment and nothing stays open
ClosedInReverseOrder == OpenAfter(fragmenter.log, Len(fragmenter.log)) = <<>>

OnlyRootRemains == Len(fragmenter.S) = 1 /\ fragmenter.S[1].entry = 0

RangeAnnotations ==
    {i \in 1..Len(fragmenter.annotations) :
        ~fragmenter.annotations[i].anchor
        /\ fragmenter.annotations[i].start < fragmenter.annotations[i].end}

ClosedFragmentsOf(i) == {j \in CallsOf("onClose") : fragmenter.log[j].node = i}

Positions(call) == {x \in 0..MaxText : call.from <= x /\ x < call.to}

\* the closed fragments of a range annotation are pairwise disjoint and cover its range
FragmentsCoverRange(i) ==
    /\ \A j \in ClosedFragmentsOf(i) : \A k \in ClosedFragmentsOf(i) :
          j # k => Positions(fragmenter.log[j]) \cap Positions(fragmenter.log[k]) = {}
    /\ UNION {Positions(fragmenter.log[j]) : j \in ClosedFragmentsOf(i)}
          = {x \in 0..MaxText : fragmenter.annotations[i].start <= x
                                /\ x < fragmenter.annotations[i].end}

ProperlyNested ==
    /\ OpenedOnceAndClosedInContext
    /\ ClosedInReverseOrder
    /\ OnlyRootRemains
    /\ \A i \in RangeAnnotations : FragmentsCoverRange(i)

\* C37: start produces properly nested fragments: every fragment that is opened is
\* closed exactly once, a close matches the innermost open fragment, only the root
\* entry remains on the stack when the run finishes, and the fragments of one
\* annotation are disjoint and together cover the annotation's range
C37_ProperlyNested == StartEnded => ProperlyNested

\* the same for the runs that return
C37_ReturnedRunsNested == StartReturned => ProperlyNested

\* a run that ends in the error of line 27 with fragments open and an annotation
\* whose second fragment was never opened
C37_WitnessLeftOpen ==
    /\ StartThrew
    /\ OpenAfter(fragmenter.log, Len(fragmenter.log)) # <<>>
    /\ Len(fragmenter.S) > 1
    /\ \E i \in RangeAnnotations : ~FragmentsCoverRange(i)

\* a run that splits an annotation in two fragments and returns
C37_WitnessSplit ==
    /\ StartReturned
    /\ \E i \in RangeAnnotations : Cardinality(ClosedFragmentsOf(i)) = 2
====
